---- MODULE Spec2Model ----
(***************************************************************************)
(* A model of the import pipeline of the Academic Assignment Tracker:      *)
(* the tabular parser (lib/spreadsheet-parser.ts), the date extractor of   *)
(* the Smart Paste parser, the ImportData component's handleImport and the *)
(* Dashboard state it feeds.                                               *)
(*                                                                         *)
(* Text that the program inspects character by character is a sequence of  *)
(* one-character strings; identifiers the program only compares (semester  *)
(* ids, item ids, labels) are plain strings.                               *)
(***************************************************************************)
EXTENDS Integers, Sequences, FiniteSets, TLC

VARIABLES
  items,             \* Dashboard: useState<AcademicItem[]>
  semesters,         \* Dashboard: useState<Semester[]>
  currentSemesterId, \* Dashboard: useState("my-semester")
  isLoaded,          \* Dashboard: useState(false)
  storage,           \* localStorage: the three records the Dashboard reads and writes
  error,             \* ImportData: useState("") error message
  lastImport,        \* what the last handleImport call did (parse / onImport calls)
  now,               \* the clock read by Date.now()
  dateText,          \* input of the date extractors (pure-function checks)
  dateOut,           \* their results on dateText
  callArgs,          \* the arguments drawn for one call of a pure function
  callResult,        \* what the call returned
  dialog,            \* AddAssignment: the form state of the dialog and its pending timers
  queued             \* Dashboard: the state updates the mount effect has queued

vars == <<items, semesters, currentSemesterId, isLoaded, storage, error, lastImport, now, dateText, dateOut, callArgs, callResult, dialog, queued>>

(***************************************************************************)
(* Characters and the JavaScript string primitives the parsers use.        *)
(***************************************************************************)
UpperLetters == <<"A","B","C","D","E","F","G","H","I","J","K","L","M","N","O","P","Q","R","S","T","U","V","W","X","Y","Z">>

LowerLetters == <<"a","b","c","d","e","f","g","h","i","j","k","l","m","n","o","p","q","r","s","t","u","v","w","x","y","z">>

DigitChars == <<"0","1","2","3","4","5","6","7","8","9">>

Range(f) == {f[i] : i \in DOMAIN f}

IsDigit(c) == c \in Range(DigitChars)

IsLetter(c) == c \in Range(UpperLetters) \cup Range(LowerLetters)

\* \s of a JavaScript regular expression, and what trim() removes
IsSpace(c) == c \in {" ", "\t", "\n", "\r"}

\* \w of a JavaScript regular expression
IsWordChar(c) == IsLetter(c) \/ IsDigit(c) \/ c = "_"

ToLowerChar(c) == IF c \in Range(UpperLetters) THEN LowerLetters[CHOOSE i \in 1..26 : UpperLetters[i] = c] ELSE c

ToUpperChar(c) == IF c \in Range(LowerLetters) THEN UpperLetters[CHOOSE i \in 1..26 : LowerLetters[i] = c] ELSE c

ToLowerCase(s) == [i \in 1..Len(s) |-> ToLowerChar(s[i])]

ToUpperCase(s) == [i \in 1..Len(s) |-> ToUpperChar(s[i])]

\* the characters of s at positions a..b (1-based, inclusive), clamped to s like s.slice
Sub(s, a, b) ==
  LET lo == IF a < 1 THEN 1 ELSE a
      hi == IF b > Len(s) THEN Len(s) ELSE b
  IN  IF lo > hi THEN <<>> ELSE SubSeq(s, lo, hi)

\* s.trim()
Trim(s) ==
  LET keep == {i \in 1..Len(s) : ~IsSpace(s[i])}
  IN  IF keep = {} THEN <<>>
      ELSE Sub(s, CHOOSE i \in keep : \A j \in keep : i <= j, CHOOSE i \in keep : \A j \in keep : i >= j)

\* s.replace(/\s+/g, "")
RemoveSpaces(s) == SelectSeq(s, LAMBDA c : ~IsSpace(c))

\* whether sub occurs in s at position p (1-based)
OccursAt(s, sub, p) == /\ p >= 1
                       /\ p + Len(sub) - 1 <= Len(s)
                       /\ \A k \in 1..Len(sub) : s[p + k - 1] = sub[k]

\* s.includes(sub)
Includes(s, sub) == \E p \in 1..(Len(s) + 1) : OccursAt(s, sub, p)

\* s.indexOf(sub), 0-based, -1 when absent
IndexOf(s, sub) ==
  IF Includes(s, sub)
  THEN (CHOOSE p \in 1..(Len(s) + 1) : OccursAt(s, sub, p) /\ \A q \in 1..(p - 1) : ~OccursAt(s, sub, q)) - 1
  ELSE -1

\* s.slice(from) and s.slice(0, to), 0-based
SliceFrom(s, from) == Sub(s, from + 1, Len(s))

SliceTo(s, to) == Sub(s, 1, to)

\* s.split(d) for a one-character delimiter d
RECURSIVE Split(_, _)
Split(s, d) ==
  IF \A i \in 1..Len(s) : s[i] # d THEN <<s>>
  ELSE LET p == CHOOSE i \in 1..Len(s) : s[i] = d /\ \A j \in 1..(i - 1) : s[j] # d
       IN  <<Sub(s, 1, p - 1)>> \o Split(Sub(s, p + 1, Len(s)), d)

\* s.split(/\r?\n/): a "\r" right before the "\n" belongs to the separator
SplitLines(s) ==
  LET parts == Split(s, "\n")
      chop(x) == IF Len(x) > 0 /\ x[Len(x)] = "\r" THEN Sub(x, 1, Len(x) - 1) ELSE x
  IN  [i \in 1..Len(parts) |-> IF i < Len(parts) THEN chop(parts[i]) ELSE parts[i]]

\* s.padStart(2, "0")
PadStart2(s) == IF Len(s) >= 2 THEN s ELSE IF Len(s) = 1 THEN <<"0">> \o s ELSE <<"0","0">>

DigitVal(c) == (CHOOSE i \in 1..10 : DigitChars[i] = c) - 1

\* parseInt(s, 10) of a string of digits
RECURSIVE ParseInt(_)
ParseInt(s) == IF Len(s) = 0 THEN 0 ELSE 10 * ParseInt(Sub(s, 1, Len(s) - 1)) + DigitVal(s[Len(s)])

\* String(n) of a natural number
RECURSIVE NumToString(_)
NumToString(n) == IF n < 10 THEN <<DigitChars[n + 1]>> ELSE NumToString(n \div 10) \o <<DigitChars[(n % 10) + 1]>>

\* whether s[p .. p+n-1] exists and is all digits
DigitsAt(s, p, n) == /\ p >= 1
                     /\ p + n - 1 <= Len(s)
                     /\ \A k \in p..(p + n - 1) : IsDigit(s[k])

\* the regular expression's \b before position p (between s[p-1] and s[p])
WordBoundary(s, p) ==
  LET before == p - 1 >= 1 /\ p - 1 <= Len(s) /\ IsWordChar(s[p - 1])
      after  == p >= 1 /\ p <= Len(s) /\ IsWordChar(s[p])
  IN  before # after

(***************************************************************************)
(* The clock and the calendar.  Date.now() is the variable now; the day     *)
(* the program runs on is Today, in the year CurrentYear.                   *)
(***************************************************************************)
CurrentYear == 2026

\* new Date().toISOString().slice(0, 10), here 2026-11-02
Today == NumToString(CurrentYear) \o <<"-","1","1","-","0","2">>

\* the result "no match" of the date extractors: not a string of characters
Null == <<"null">>

(***************************************************************************)
(* Pieces of the date regular expressions shared by parseDate              *)
(* (lib/spreadsheet-parser.ts) and extractDate (Smart Paste).              *)
(***************************************************************************)
\* length of the run of digits that starts at position p
DigitRun(s, p) ==
  IF p < 1 \/ p > Len(s) \/ ~IsDigit(s[p]) THEN 0
  ELSE (CHOOSE e \in p..Len(s) : (\A k \in p..e : IsDigit(s[k])) /\ (e = Len(s) \/ ~IsDigit(s[e + 1]))) - p + 1

CharAt(s, p) == IF p >= 1 /\ p <= Len(s) THEN s[p] ELSE ""

IsDateSep(c) == c \in {"/", "-"}

NumTripleOf(s, p, a, b, c) ==
  [a |-> a, s1 |-> CharAt(s, p + a), b |-> b, s2 |-> CharAt(s, p + a + 1 + b), c |-> c,
   A |-> Sub(s, p, p + a - 1),
   B |-> Sub(s, p + a + 1, p + a + b),
   C |-> Sub(s, p + a + b + 2, p + a + b + c + 1),
   end |-> p + a + b + c + 2]

NumTripleAB(s, p, a, b) == NumTripleOf(s, p, a, b, DigitRun(s, p + a + b + 2))

NumTripleA(s, p, a) == NumTripleAB(s, p, a, DigitRun(s, p + a + 1))

\* digits, one character, digits, one character, digits, read from position p
NumTriple(s, p) == NumTripleA(s, p, DigitRun(s, p))

NumPairOf(s, p, a, b) ==
  [a |-> a, s1 |-> CharAt(s, p + a), b |-> b,
   A |-> Sub(s, p, p + a - 1),
   B |-> Sub(s, p + a + 1, p + a + b),
   end |-> p + a + b + 1]

NumPairA(s, p, a) == NumPairOf(s, p, a, DigitRun(s, p + a + 1))

\* digits, one character, digits, read from position p
NumPair(s, p) == NumPairA(s, p, DigitRun(s, p))

\* the alternation jan(?:uary)?|feb(?:ruary)?|...|dec(?:ember)? of the month regexes
MonthWords == <<
  <<"j","a","n">>, <<"j","a","n","u","a","r","y">>,
  <<"f","e","b">>, <<"f","e","b","r","u","a","r","y">>,
  <<"m","a","r">>, <<"m","a","r","c","h">>,
  <<"a","p","r">>, <<"a","p","r","i","l">>,
  <<"m","a","y">>,
  <<"j","u","n">>, <<"j","u","n","e">>,
  <<"j","u","l">>, <<"j","u","l","y">>,
  <<"a","u","g">>, <<"a","u","g","u","s","t">>,
  <<"s","e","p">>, <<"s","e","p","t">>, <<"s","e","p","t","e","m","b","e","r">>,
  <<"o","c","t">>, <<"o","c","t","o","b","e","r">>,
  <<"n","o","v">>, <<"n","o","v","e","m","b","e","r">>,
  <<"d","e","c">>, <<"d","e","c","e","m","b","e","r">>
>>

\* months[name.slice(0, 3)] of parseDate: 1..12 by the first three letters
MonthNumber(name) ==
  LET k == Sub(ToLowerCase(name), 1, 3)
      abbr == <<MonthWords[1], MonthWords[3], MonthWords[5], MonthWords[7], MonthWords[9], MonthWords[10],
                MonthWords[12], MonthWords[14], MonthWords[16], MonthWords[19], MonthWords[21], MonthWords[23]>>
  IN  CHOOSE m \in 1..12 : abbr[m] = k

\* length of the run of whitespace that starts at position p
SpaceRun(s, p) ==
  IF p < 1 \/ p > Len(s) \/ ~IsSpace(s[p]) THEN 0
  ELSE (CHOOSE e \in p..Len(s) : (\A k \in p..e : IsSpace(s[k])) /\ (e = Len(s) \/ ~IsSpace(s[e + 1]))) - p + 1

\* the lengths n for which a month word (any letter case) stands at p, after a \b and before whitespace
MonthWordLens(s, p) ==
  IF ~WordBoundary(s, p) \/ ~IsLetter(CharAt(s, p)) THEN {}
  ELSE {Len(MonthWords[i]) : i \in {j \in 1..Len(MonthWords) :
          /\ ToLowerCase(Sub(s, p, p + Len(MonthWords[j]) - 1)) = MonthWords[j]
          /\ IsSpace(CharAt(s, p + Len(MonthWords[j])))}}

\* the k-th way to match day, ordinal suffix and comma, in the order the regex engine tries them
\* (every quantifier greedy): <<day digits, ordinal suffix?, comma?>>
MonthPrefix(k) == <<2 - (k \div 4), 1 - ((k \div 2) % 2), 1 - (k % 2)>>

\* whether (\d{1,2})(?:st|nd|rd|th)?,? matches at q in the way c
MonthPrefixOk(s, q, yearMode, c) ==
  /\ DigitsAt(s, q, c[1])
  /\ c[2] = 1 => ToLowerCase(Sub(s, q + c[1], q + c[1] + 1)) \in {<<"s","t">>, <<"n","d">>, <<"r","d">>, <<"t","h">>}
  /\ c[3] = 1 => CharAt(s, q + c[1] + 2 * c[2]) = ","
  /\ yearMode = "none" => c[3] = 0

\* whether \s*(\d{4})?\b matches at r taking sp whitespace characters and yr years
MonthRestOk(s, r, yearMode, sp, yr) ==
  /\ yr = 1 => DigitsAt(s, r + sp, 4)
  /\ WordBoundary(s, r + sp + 4 * yr)
  /\ yearMode = "required" => yr = 1
  /\ yearMode = "none" => (sp = 0 /\ yr = 0)

\* the first way \s*(\d{4})?\b matches at r with at most sp whitespace characters: <<>> when none does
RECURSIVE MonthRestFirst(_, _, _, _)
MonthRestFirst(s, r, yearMode, sp) ==
  IF sp < 0 THEN <<>>
  ELSE IF MonthRestOk(s, r, yearMode, sp, 1) THEN <<sp, 1>>
  ELSE IF MonthRestOk(s, r, yearMode, sp, 0) THEN <<sp, 0>>
  ELSE MonthRestFirst(s, r, yearMode, sp - 1)

\* the rest of the match after the prefix c, which ends at r
MonthRestAfter(s, r, yearMode) == MonthRestFirst(s, r, yearMode, SpaceRun(s, r))

\* the tail of a month regex matched with the prefix c, when the prefix matches
MonthTailWith(s, q, yearMode, c) ==
  IF MonthPrefixOk(s, q, yearMode, c) THEN MonthRestAfter(s, q + c[1] + 2 * c[2] + c[3], yearMode) ELSE <<>>

\* c followed by the rest, or <<>> when there is no rest
MonthTailJoin(c, rest) == IF rest = <<>> THEN <<>> ELSE c \o rest

\* the first way from the k-th prefix on in which the tail of a month regex matches after the
\* month word: <<day digits, ordinal suffix?, comma?, whitespace taken, year?>>, or <<>>
RECURSIVE MonthTailFirst(_, _, _, _)
MonthTailFirst(s, q, yearMode, k) ==
  IF k > 7 THEN <<>>
  ELSE IF MonthTailWith(s, q, yearMode, MonthPrefix(k)) # <<>>
  THEN MonthTailJoin(MonthPrefix(k), MonthTailWith(s, q, yearMode, MonthPrefix(k)))
  ELSE MonthTailFirst(s, q, yearMode, k + 1)

\* the match that starts at p with a month word of n letters, the day at q and the tail choice c
MonthMatchOf(s, p, n, q, c) ==
  IF c = <<>> THEN [found |-> FALSE]
  ELSE [found |-> TRUE, start |-> p, end |-> q + c[1] + 2 * c[2] + c[3] + c[4] + 4 * c[5],
        month |-> Sub(s, p, p + n - 1),
        day |-> Sub(s, q, q + c[1] - 1),
        year |-> IF c[5] = 1 THEN Sub(s, q + c[1] + 2 * c[2] + c[3] + c[4], q + c[1] + 2 * c[2] + c[3] + c[4] + 3) ELSE <<>>]

\* month word of n letters at p, \s+ up to q, then the tail
MonthMatchFrom(s, p, n, q, yearMode) == MonthMatchOf(s, p, n, q, MonthTailFirst(s, q, yearMode, 0))

MonthMatchWord(s, p, lens, yearMode) ==
  IF lens = {} THEN [found |-> FALSE]
  ELSE MonthMatchFrom(s, p, CHOOSE x \in lens : TRUE, p + (CHOOSE x \in lens : TRUE) + SpaceRun(s, p + (CHOOSE x \in lens : TRUE)), yearMode)

\* the match of a month regex that starts at position p, if there is one
MonthMatchAt(s, p, yearMode) == MonthMatchWord(s, p, MonthWordLens(s, p), yearMode)

MonthOptYearAt(s, p) == MonthMatchAt(s, p, "optional")

MonthYearAt(s, p) == MonthMatchAt(s, p, "required")

MonthDayAt(s, p) == MonthMatchAt(s, p, "none")

SlashFullOf(s, p, t) ==
  IF /\ WordBoundary(s, p)
     /\ t.a \in 1..2 /\ IsDateSep(t.s1) /\ t.b \in 1..2 /\ IsDateSep(t.s2) /\ t.c \in 2..4
     /\ WordBoundary(s, t.end)
  THEN [found |-> TRUE, start |-> p, end |-> t.end, g1 |-> t.A, g2 |-> t.B, g3 |-> t.C]
  ELSE [found |-> FALSE]

\* /\b(\d{1,2})[\/\-](\d{1,2})[\/\-](\d{2,4})\b/ at position p
SlashFullAt(s, p) == SlashFullOf(s, p, NumTriple(s, p))

SlashShortOf(s, p, t) ==
  IF /\ WordBoundary(s, p)
     /\ t.a \in 1..2 /\ t.s1 = "/" /\ t.b \in 1..2
     /\ WordBoundary(s, t.end)
     /\ ~(CharAt(s, t.end) = "/" /\ IsDigit(CharAt(s, t.end + 1)))
  THEN [found |-> TRUE, start |-> p, end |-> t.end, g1 |-> t.A, g2 |-> t.B]
  ELSE [found |-> FALSE]

\* /\b(\d{1,2})\/(\d{1,2})\b(?!\/\d)/ at position p
SlashShortAt(s, p) == SlashShortOf(s, p, NumPair(s, p))

IsoOf(s, p, t) ==
  IF /\ WordBoundary(s, p)
     /\ t.a = 4 /\ IsDateSep(t.s1) /\ t.b \in 1..2 /\ IsDateSep(t.s2) /\ t.c \in 1..2
     /\ WordBoundary(s, t.end)
  THEN [found |-> TRUE, start |-> p, end |-> t.end, g1 |-> t.A, g2 |-> t.B, g3 |-> t.C]
  ELSE [found |-> FALSE]

\* /\b(\d{4})[\/\-](\d{1,2})[\/\-](\d{1,2})\b/ at position p
IsoAt(s, p) == IsoOf(s, p, NumTriple(s, p))

SlashOptYearOf(s, p, t) ==
  IF ~(WordBoundary(s, p) /\ t.a \in 1..2 /\ IsDateSep(t.s1) /\ t.b \in 1..2) THEN [found |-> FALSE]
  ELSE IF IsDateSep(t.s2) /\ t.c \in 2..4 /\ WordBoundary(s, t.end) THEN [found |-> TRUE, start |-> p, end |-> t.end]
  ELSE IF WordBoundary(s, p + t.a + t.b + 1) THEN [found |-> TRUE, start |-> p, end |-> p + t.a + t.b + 1]
  ELSE [found |-> FALSE]

\* /\b\d{1,2}[\/\-]\d{1,2}(?:[\/\-]\d{2,4})?\b/ at position p
SlashOptYearAt(s, p) == SlashOptYearOf(s, p, NumTriple(s, p))

\* the alternation econ|eco|math|mis|bus|acc|fin|mkt|mgmt of the title's class-code pattern
CoursePrefixes == <<<<"e","c","o","n">>, <<"e","c","o">>, <<"m","a","t","h">>, <<"m","i","s">>, <<"b","u","s">>, <<"a","c","c">>, <<"f","i","n">>, <<"m","k","t">>, <<"m","g","m","t">>>>

CoursePrefixOf(s, p, lens) ==
  IF lens = {} THEN [found |-> FALSE]
  ELSE [found |-> TRUE, start |-> p, end |-> p + (CHOOSE n \in lens : TRUE) + SpaceRun(s, p + (CHOOSE n \in lens : TRUE)) + 3]

\* /\b(econ|eco|math|mis|bus|acc|fin|mkt|mgmt)\s*\d{3}\b/i at position p
CoursePrefixAt(s, p) ==
  IF ~WordBoundary(s, p) \/ ~IsLetter(CharAt(s, p)) THEN [found |-> FALSE]
  ELSE CoursePrefixOf(s, p, {Len(CoursePrefixes[i]) : i \in {j \in 1..Len(CoursePrefixes) :
         /\ ToLowerCase(Sub(s, p, p + Len(CoursePrefixes[j]) - 1)) = CoursePrefixes[j]
         /\ DigitsAt(s, p + Len(CoursePrefixes[j]) + SpaceRun(s, p + Len(CoursePrefixes[j])), 3)
         /\ WordBoundary(s, p + Len(CoursePrefixes[j]) + SpaceRun(s, p + Len(CoursePrefixes[j])) + 3)}})

\* length of the run of letters A-Z, a-z that starts at position p
LetterRun(s, p) ==
  IF ~IsLetter(CharAt(s, p)) THEN 0
  ELSE (CHOOSE e \in p..Len(s) : (\A k \in p..e : IsLetter(s[k])) /\ (e = Len(s) \/ ~IsLetter(s[e + 1]))) - p + 1

ClassCodeOf(s, p, n, q, d) ==
  IF n \in 2..6 /\ d \in 2..4 /\ WordBoundary(s, q + d)
  THEN [found |-> TRUE, start |-> p, end |-> q + d]
  ELSE [found |-> FALSE]

ClassCodeFrom(s, p, n, q) == ClassCodeOf(s, p, n, q, DigitRun(s, q))

ClassCodeLetters(s, p, n) == ClassCodeFrom(s, p, n, p + n + SpaceRun(s, p + n))

\* classCodeRegex /\b([A-Za-z]{2,6})\s*(\d{2,4})\b/ at position p
ClassCodeAt(s, p) == IF WordBoundary(s, p) THEN ClassCodeLetters(s, p, LetterRun(s, p)) ELSE [found |-> FALSE]

\* the match of one of the date regexes that starts at position p, if there is one
MatchAt(s, p, regex) ==
  CASE regex = "monthOptYear" -> MonthOptYearAt(s, p)
    [] regex = "monthYear"    -> MonthYearAt(s, p)
    [] regex = "monthDay"     -> MonthDayAt(s, p)
    [] regex = "slashFull"    -> SlashFullAt(s, p)
    [] regex = "slashShort"   -> SlashShortAt(s, p)
    [] regex = "iso"          -> IsoAt(s, p)
    [] regex = "slashOptYear" -> SlashOptYearAt(s, p)
    [] regex = "coursePrefix" -> CoursePrefixAt(s, p)
    [] regex = "classCode"    -> ClassCodeAt(s, p)

\* the match at the leftmost of the start positions ps
MatchAtFirst(s, regex, ps) == IF ps = <<>> THEN [found |-> FALSE] ELSE MatchAt(s, ps[1], regex)

\* s.match(regex) without the g flag: the leftmost match
FirstMatch(s, regex) == MatchAtFirst(s, regex, SelectSeq([p \in 1..Len(s) |-> p], LAMBDA p : MatchAt(s, p, regex).found))

\* the leftmost match that starts at position q or later
FirstMatchFrom(s, regex, q) ==
  MatchAtFirst(s, regex, SelectSeq([i \in 1..(Len(s) - q + 1) |-> q + i - 1], LAMBDA p : MatchAt(s, p, regex).found))

RECURSIVE RemoveFrom(_, _, _)
RemoveWith(s, regex, q, m) ==
  IF m.found THEN Sub(s, q, m.start - 1) \o RemoveFrom(s, regex, m.end) ELSE Sub(s, q, Len(s))

\* s.replace(regex, "") with the g flag, from position q on
RemoveFrom(s, regex, q) == RemoveWith(s, regex, q, FirstMatchFrom(s, regex, q))

RemoveAll(s, regex) == RemoveFrom(s, regex, 1)

IsoDate(y, m, d) == y \o <<"-">> \o m \o <<"-">> \o d

(***************************************************************************)
(* parseDate of lib/spreadsheet-parser.ts                                  *)
(***************************************************************************)
\* if (year < 100) year += 2000
FullYearAsIs(y) == y

FullYear(y) == IF y < 100 THEN y + 2000 ELSE y

\* the month-name rule of parseDate on its match mm
DateOfMonthMatch(mm) ==
  IF mm.found
  THEN IsoDate(IF mm.year # <<>> THEN mm.year ELSE NumToString(CurrentYear),
               PadStart2(NumToString(MonthNumber(mm.month))), PadStart2(mm.day))
  ELSE Null

\* the rules of parseDate on the trimmed cell str, read as a number triple t and a number pair u
ParseDateRules(str, t, u) ==
  IF t.end = Len(str) + 1 /\ t.a = 4 /\ t.s1 = "-" /\ t.b \in 1..2 /\ t.s2 = "-" /\ t.c \in 1..2
  THEN IsoDate(t.A, PadStart2(t.B), PadStart2(t.C))
  ELSE IF t.end = Len(str) + 1 /\ t.a \in 1..2 /\ IsDateSep(t.s1) /\ t.b \in 1..2 /\ IsDateSep(t.s2) /\ t.c \in 2..4
  THEN IsoDate(NumToString(FullYear(ParseInt(t.C))), PadStart2(t.A), PadStart2(t.B))
  ELSE IF u.end = Len(str) + 1 /\ u.a \in 1..2 /\ IsDateSep(u.s1) /\ u.b \in 1..2
  THEN IsoDate(NumToString(CurrentYear), PadStart2(u.A), PadStart2(u.B))
  ELSE DateOfMonthMatch(FirstMatch(str, "monthOptYear"))

ParseDateTrimmed(str) == IF str = <<>> THEN Null ELSE ParseDateRules(str, NumTriple(str, 1), NumPair(str, 1))

parseDate(value) == ParseDateTrimmed(Trim(value))

(***************************************************************************)
(* extractDate of the Smart Paste parser (parseTextToAssignments)          *)
(***************************************************************************)
\* monthMap[name.slice(0, 3)]: 0..11
monthMap(name) == MonthNumber(name) - 1

\* `${year}-${String(month).padStart(2, "0")}-${String(day).padStart(2, "0")}` of numbers
IsoOfNumbers(year, month, day) == IsoDate(NumToString(year), PadStart2(NumToString(month)), PadStart2(NumToString(day)))

\* rule 5: ISO
ExtractIso(iso) == IF iso.found THEN IsoDate(iso.g1, PadStart2(iso.g2), PadStart2(iso.g3)) ELSE Null

\* rule 4: M/D, else rule 5
ExtractShort(text, sh) ==
  IF sh.found THEN IsoOfNumbers(CurrentYear, ParseInt(sh.g1), ParseInt(sh.g2))
  ELSE ExtractIso(FirstMatch(text, "iso"))

\* rule 3: M/D/Y, else rule 4
ExtractFull(text, full) ==
  IF full.found THEN IsoOfNumbers(FullYear(ParseInt(full.g3)), ParseInt(full.g1), ParseInt(full.g2))
  ELSE ExtractShort(text, FirstMatch(text, "slashShort"))

\* rule 2: month name and day, else rule 3
ExtractMonthDay(text, md) ==
  IF md.found THEN IsoOfNumbers(CurrentYear, monthMap(md.month) + 1, ParseInt(md.day))
  ELSE ExtractFull(text, FirstMatch(text, "slashFull"))

\* rule 1: month name, day and year, else rule 2
ExtractMonthDayYear(text, mdy) ==
  IF mdy.found THEN IsoOfNumbers(ParseInt(mdy.year), monthMap(mdy.month) + 1, ParseInt(mdy.day))
  ELSE ExtractMonthDay(text, FirstMatch(text, "monthDay"))

extractDate(text) == ExtractMonthDayYear(text, FirstMatch(text, "monthYear"))

(***************************************************************************)
(* lib/spreadsheet-parser.ts: the tabular parser                           *)
(***************************************************************************)
COLORS == <<"bg-chart-1", "bg-chart-2", "bg-chart-3", "bg-chart-4", "bg-chart-5">>

\* the entries of TYPE_MAP: <<key, ItemType>>
TYPE_MAP == <<
  <<<<"a","s","s","i","g","n","m","e","n","t">>, <<"a","s","s","i","g","n","m","e","n","t">>>>,
  <<<<"a","s","s","i","g","n","m","e","n","t","s">>, <<"a","s","s","i","g","n","m","e","n","t">>>>,
  <<<<"h","w">>, <<"h","o","m","e","w","o","r","k">>>>,
  <<<<"h","o","m","e","w","o","r","k">>, <<"h","o","m","e","w","o","r","k">>>>,
  <<<<"q","u","i","z">>, <<"q","u","i","z">>>>,
  <<<<"q","u","i","z","z","e","s">>, <<"q","u","i","z">>>>,
  <<<<"e","x","a","m">>, <<"e","x","a","m">>>>,
  <<<<"e","x","a","m","s">>, <<"e","x","a","m">>>>,
  <<<<"f","i","n","a","l">>, <<"e","x","a","m">>>>,
  <<<<"m","i","d","t","e","r","m">>, <<"e","x","a","m">>>>,
  <<<<"p","r","o","j","e","c","t">>, <<"p","r","o","j","e","c","t">>>>,
  <<<<"p","r","o","j","e","c","t","s">>, <<"p","r","o","j","e","c","t">>>>,
  <<<<"l","e","c","t","u","r","e">>, <<"l","e","c","t","u","r","e">>>>,
  <<<<"l","e","c","t","u","r","e","s">>, <<"l","e","c","t","u","r","e">>>>,
  <<<<"r","e","a","d","i","n","g">>, <<"l","e","c","t","u","r","e">>>>
>>

TypeAssignment == <<"a","s","s","i","g","n","m","e","n","t">>

\* the optional field of an item that is absent: not a string of characters
Undefined == <<"undefined">>

normalizeType(value) ==
  LET key  == Trim(ToLowerCase(value))
      hits == {k \in 1..Len(TYPE_MAP) : TYPE_MAP[k][1] = key}
  IN  IF hits = {} THEN TypeAssignment ELSE TYPE_MAP[CHOOSE k \in hits : TRUE][2]

detectDelimiter(firstLine) == IF Includes(firstLine, <<"\t">>) THEN "\t" ELSE ","

\* text.split(/\r?\n/).map((l) => l.trim()).filter(Boolean)
NonBlankLines(text) ==
  LET ls == SplitLines(text)
  IN  SelectSeq([i \in 1..Len(ls) |-> Trim(ls[i])], LAMBDA l : l # <<>>)

\* lines[0].split(delimiter).map((h) => h.toLowerCase().trim())
HeaderCells(line, delimiter) ==
  LET hs == Split(line, delimiter)
  IN  [i \in 1..Len(hs) |-> Trim(ToLowerCase(hs[i]))]

\* lines[i].split(delimiter).map((c) => c.trim())
RowCells(line, delimiter) ==
  LET cs == Split(line, delimiter)
  IN  [i \in 1..Len(cs) |-> Trim(cs[i])]

\* headers.findIndex((h) => h.includes(name) || name.includes(h)), 0-based, -1 when absent
FindHeader(headers, name) ==
  LET hit == {i \in 1..Len(headers) : Includes(headers[i], name) \/ Includes(name, headers[i])}
  IN  IF hit = {} THEN -1 ELSE (CHOOSE i \in hit : \A j \in hit : i <= j) - 1

\* the closure col(names): the column of the first name that any header matches, else -1
RECURSIVE col(_, _)
col(headers, names) ==
  IF names = <<>> THEN -1
  ELSE IF FindHeader(headers, Head(names)) >= 0 THEN FindHeader(headers, Head(names))
  ELSE col(headers, Tail(names))

ClassNames == << <<"c","l","a","s","s">>, <<"c","o","u","r","s","e">>, <<"s","u","b","j","e","c","t">> >>

TitleNames == << <<"t","i","t","l","e">>, <<"n","a","m","e">>, <<"a","s","s","i","g","n","m","e","n","t">> >>

TypeNames == << <<"t","y","p","e">>, <<"c","a","t","e","g","o","r","y">> >>

DateNames == << <<"d","u","e"," ","d","a","t","e">>, <<"d","u","e">>, <<"d","a","t","e">> >>

TimeNames == << <<"t","i","m","e">> >>

\* the column mapping parseSpreadsheet derives from the header line (0-based, -1: no such column)
ColumnMap(headers) ==
  [classCol |-> IF col(headers, ClassNames) >= 0 THEN col(headers, ClassNames) ELSE 0,
   titleCol |-> IF col(headers, TitleNames) >= 0 THEN col(headers, TitleNames) ELSE 1,
   typeCol  |-> col(headers, TypeNames),
   dateCol  |-> IF col(headers, DateNames) >= 0 THEN col(headers, DateNames) ELSE 2,
   timeCol  |-> col(headers, TimeNames)]

\* cells[k] ?? "" for a 0-based column k
Cell(cells, k) == IF k >= 0 /\ k < Len(cells) THEN cells[k + 1] ELSE <<>>

\* String(i) as characters
IndexChars(i) == NumToString(i)

\* the class code and class name read from the class cell of row i
ParseClass(classRaw, i) ==
  LET dash  == IndexOf(classRaw, <<" ","-"," ">>)
      codeD == Trim(SliceTo(classRaw, dash))
      nameD == Trim(SliceFrom(classRaw, dash + 3))
      codeP == IF ToUpperCase(RemoveSpaces(classRaw)) # <<>> THEN ToUpperCase(RemoveSpaces(classRaw))
               ELSE <<"C","L","A","S","S","-">> \o IndexChars(i)
  IN  IF dash > 0
      THEN [classCode |-> codeD, className |-> IF nameD # <<>> THEN nameD ELSE codeD]
      ELSE [classCode |-> codeP, className |-> IF classRaw # <<>> THEN classRaw ELSE codeP]

\* `imported-${Date.now()}-${i}-${Math.random().toString(36).slice(2, 9)}`
ImportedId(t, i, rnd) == "imported-" \o ToString(t) \o "-" \o ToString(i) \o "-" \o rnd

\* parseDate(dateRaw) ?? new Date().toISOString().slice(0, 10)
OrToday(date) == IF date # Null THEN date ELSE Today

\* the type cell of a row: normalizeType(cells[typeCol]) when the column exists and the cell is not empty
RowType(cells, cm) == IF cm.typeCol >= 0 /\ Cell(cells, cm.typeCol) # <<>> THEN normalizeType(Cell(cells, cm.typeCol)) ELSE TypeAssignment

\* the time cell of a row: cells[timeCol] || undefined
RowTime(cells, cm) == IF cm.timeCol >= 0 /\ Cell(cells, cm.timeCol) # <<>> THEN Cell(cells, cm.timeCol) ELSE Undefined

\* items.push({...}) of the row loop
RowItem(i, titleRaw, cls, type, dueDate, time, t, rnd) ==
  [id |-> ImportedId(t, i, rnd),
   title |-> IF titleRaw # <<>> THEN titleRaw ELSE type \o <<" ">> \o IndexChars(i),
   class |-> cls.className,
   classCode |-> cls.classCode,
   type |-> type,
   status |-> "not-started",
   dueDate |-> dueDate,
   time |-> time]

\* the row loop on the cells read: skip the row when title and class are both empty
RowOfCells(i, cells, classRaw, titleRaw, dateRaw, cm, t, rnd) ==
  IF titleRaw = <<>> /\ classRaw = <<>> THEN [skip |-> TRUE]
  ELSE [skip |-> FALSE,
        item |-> RowItem(i, titleRaw, ParseClass(classRaw, i), RowType(cells, cm), OrToday(parseDate(dateRaw)), RowTime(cells, cm), t, rnd)]

RowOf(i, cells, cm, t, rnd) == RowOfCells(i, cells, Cell(cells, cm.classCol), Cell(cells, cm.titleCol), Cell(cells, cm.dateCol), cm, t, rnd)

\* the body of the row loop for line i (0-based): the item it pushes, or no item
ParseRow(line, i, delimiter, cm, t, rnd) == RowOf(i, RowCells(line, delimiter), cm, t, rnd)

\* the ClassInfo parseSpreadsheet creates for the n-th new class (n counted from 0)
NewClassInfo(item, n) == [code |-> item.classCode, name |-> item.class, color |-> COLORS[(n % Len(COLORS)) + 1], hasLatePenalty |-> FALSE]

\* Array.from(classMap.values()): one ClassInfo per class code, in first-seen order
RECURSIVE ClassesOf(_, _)
ClassesOf(its, acc) ==
  IF its = <<>> THEN acc
  ELSE IF \E k \in 1..Len(acc) : acc[k].code = Head(its).classCode THEN ClassesOf(Tail(its), acc)
  ELSE ClassesOf(Tail(its), Append(acc, NewClassInfo(Head(its), Len(acc))))

\* the items pushed, in row order
KeptItems(kept) == [k \in 1..Len(kept) |-> kept[k].item]

\* return { items, classes: Array.from(classMap.values()) }
ParsedOf(its) == [items |-> its, classes |-> ClassesOf(its, <<>>)]

\* the row loop over lines[1..] with the column mapping cm
ParseRows(lines, delimiter, cm, t, rnd) ==
  ParsedOf(KeptItems(SelectSeq([i \in 1..(Len(lines) - 1) |-> ParseRow(lines[i + 1], i, delimiter, cm, t, rnd[i])], LAMBDA r : ~r.skip)))

ParseTable(lines, delimiter, t, rnd) == ParseRows(lines, delimiter, ColumnMap(HeaderCells(lines[1], delimiter)), t, rnd)

\* if (lines.length < 2) return { items: [], classes: [] }
ParseLines(lines, t, rnd) ==
  IF Len(lines) < 2 THEN [items |-> <<>>, classes |-> <<>>]
  ELSE ParseTable(lines, detectDelimiter(lines[1]), t, rnd)

\* parseSpreadsheet(text) at clock t; rnd[i] is the random part of the id of line i's item
parseSpreadsheet(text, t, rnd) == ParseLines(NonBlankLines(text), t, rnd)

(***************************************************************************)
(* The Smart Paste parser: parseTextToAssignments, with its closures        *)
(* extractClassCode and detectType.                                         *)
(***************************************************************************)
\* typePriority[type]
typePriority(type) ==
  CASE type = <<"e","x","a","m">> -> 1 [] type = <<"p","r","o","j","e","c","t">> -> 2 [] type = <<"q","u","i","z">> -> 3
    [] type = <<"a","s","s","i","g","n","m","e","n","t">> -> 4 [] type = <<"h","o","m","e","w","o","r","k">> -> 5 [] type = <<"l","e","c","t","u","r","e">> -> 6

\* the entries of typeKeywords in insertion order: <<ItemType, keywords>>
typeKeywords == <<
  <<<<"e","x","a","m">>, <<<<"f","i","n","a","l"," ","e","x","a","m">>, <<"f","i","n","a","l">>, <<"m","i","d","t","e","r","m">>, <<"e","x","a","m">>, <<"t","e","s","t">>>>>>,
  <<<<"q","u","i","z">>, <<<<"q","u","i","z">>, <<"a","s","s","e","s","s","m","e","n","t">>, <<"s","k","i","l","l"," ","q","u","i","z">>>>>>,
  <<<<"p","r","o","j","e","c","t">>, <<<<"p","r","o","j","e","c","t">>, <<"p","r","e","s","e","n","t","a","t","i","o","n">>, <<"p","a","p","e","r">>, <<"r","e","p","o","r","t">>, <<"l","a","b"," ","p","r","o","j","e","c","t">>>>>>,
  <<<<"a","s","s","i","g","n","m","e","n","t">>, <<<<"a","s","s","i","g","n","m","e","n","t">>, <<"d","u","e">>, <<"s","u","b","m","i","t">>, <<"s","u","b","m","i","s","s","i","o","n">>>>>>,
  <<<<"h","o","m","e","w","o","r","k">>, <<<<"h","o","m","e","w","o","r","k">>, <<"h","w">>, <<"p","r","o","b","l","e","m"," ","s","e","t">>, <<"p","s">>, <<"e","x","e","r","c","i","s","e","s">>>>>>,
  <<<<"l","e","c","t","u","r","e">>, <<<<"l","e","c","t","u","r","e">>, <<"c","l","a","s","s">>, <<"c","h","a","p","t","e","r">>, <<"c","h",".">>, <<"r","e","a","d","i","n","g">>>>>>
>>

\* keywords.some((kw) => lowerText.includes(kw))
HasKeyword(lowerText, keywords) == \E k \in 1..Len(keywords) : Includes(lowerText, keywords[k])

\* the loop over Object.entries(typeKeywords) from the k-th entry on, with the default
RECURSIVE DetectFrom(_, _)
DetectFrom(lowerText, k) ==
  IF k > Len(typeKeywords) THEN TypeAssignment
  ELSE IF HasKeyword(lowerText, typeKeywords[k][2]) THEN typeKeywords[k][1]
  ELSE DetectFrom(lowerText, k + 1)

WithPriority(type) == [type |-> type, priority |-> typePriority(type)]

detectTypeCaseSensitive(text) == WithPriority(DetectFrom(text, 1))

detectType(text) == WithPriority(DetectFrom(ToLowerCase(text), 1))

\* classes.find(...) on the normalized token, and the object or null returned
ClassResultOf(hits) == IF hits = <<>> THEN [found |-> FALSE] ELSE [found |-> TRUE, code |-> hits[1].code, name |-> hits[1].name]

ClassResultFor(classes, normalized) ==
  ClassResultOf(SelectSeq(classes, LAMBDA c : ToUpperCase(RemoveSpaces(c.code)) = normalized))

ClassResultAt(text, classes, m) ==
  IF m.found THEN ClassResultFor(classes, ToUpperCase(RemoveSpaces(Sub(text, m.start, m.end - 1)))) ELSE [found |-> FALSE]

\* found is FALSE for the result null
extractClassCode(text, classes) == ClassResultAt(text, classes, FirstMatch(text, "classCode"))

\* the header rows the line loop skips
IsHeaderRow(lowerLine) ==
  \/ Includes(lowerLine, <<"d","a","t","e">>) /\ Includes(lowerLine, <<"c","l","a","s","s">>)
  \/ Includes(lowerLine, <<"d","a","t","e">>) /\ Includes(lowerLine, <<"t","y","p","e">>)
  \/ OccursAt(lowerLine, <<"-","-","-">>, 1)
  \/ OccursAt(lowerLine, <<"=","=","=">>, 1)

\* the line without its date patterns and class codes, trimmed
StripPatterns(line) ==
  Trim(RemoveAll(RemoveAll(RemoveAll(RemoveAll(line, "monthOptYear"), "slashOptYear"), "iso"), "coursePrefix"))

\* the class [\-\|\t,.:] of the separator clean-up
IsSeparator(c) == c \in {"-", "|", "\t", ",", ".", ":"}

\* title.replace(/^[\-\|\t,.:]+/, "")
StripLeading(s) ==
  IF \A k \in 1..Len(s) : IsSeparator(s[k]) THEN <<>>
  ELSE Sub(s, CHOOSE e \in 1..Len(s) : ~IsSeparator(s[e]) /\ \A k \in 1..(e - 1) : IsSeparator(s[k]), Len(s))

\* title.replace(/[\-\|\t,.:]+$/, "")
StripTrailing(s) ==
  IF \A k \in 1..Len(s) : IsSeparator(s[k]) THEN <<>>
  ELSE Sub(s, 1, CHOOSE e \in 1..Len(s) : ~IsSeparator(s[e]) /\ \A k \in (e + 1)..Len(s) : IsSeparator(s[k]))

CollapseAt(s, ks) == [n \in 1..Len(ks) |-> IF IsSpace(s[ks[n]]) /\ IsSpace(CharAt(s, ks[n] + 1)) THEN " " ELSE s[ks[n]]]

\* title.replace(/\s{2,}/g, " ")
CollapseSpaces(s) == CollapseAt(s, SelectSeq([k \in 1..Len(s) |-> k], LAMBDA k : ~IsSpace(s[k]) \/ ~IsSpace(CharAt(s, k - 1))))

\* the separator clean-up of the title
CleanTitle(title) == Trim(CollapseSpaces(StripTrailing(StripLeading(title))))

\* detectedType.charAt(0).toUpperCase() + detectedType.slice(1)
Capitalize(type) == <<ToUpperChar(type[1])>> \o Tail(type)

ShortTitleKept(title, type) == title

\* if (title.length <= 2 && detectedType) title = ...
ShortTitleReplaced(title, type) == IF Len(title) <= 2 THEN Capitalize(type) ELSE title

\* the ParsedItem of a line
CandidateOf(title, dt, classResult, detectedDate) ==
  [title |-> title, type |-> dt.type, priority |-> dt.priority,
   classCode |-> IF classResult.found THEN classResult.code ELSE <<>>,
   class |-> IF classResult.found THEN classResult.name ELSE <<>>,
   dueDate |-> IF detectedDate # Null THEN detectedDate ELSE Today,
   status |-> "not-started",
   note |-> IF classResult.found /\ classResult.code = <<"M","I","S","1","8","0">> THEN "Final is mandatory to pass" ELSE "undefined"]

CandidateTyped(line, classes, dt) ==
  CandidateOf(ShortTitleReplaced(CleanTitle(StripPatterns(line)), dt.type), dt, extractClassCode(line, classes), extractDate(line))

\* the body of the line loop for a line that is not skipped
CandidateOfLine(line, classes) == CandidateTyped(line, classes, detectType(line))

\* no sort: the candidates in line order
KeepLineOrder(parsed) == parsed

\* parsed.sort((a, b) => (a.priority || 99) - (b.priority || 99)): a stable sort on 1..6
SortByPriority(parsed) ==
  SelectSeq(parsed, LAMBDA c : c.priority = 1) \o SelectSeq(parsed, LAMBDA c : c.priority = 2) \o
  SelectSeq(parsed, LAMBDA c : c.priority = 3) \o SelectSeq(parsed, LAMBDA c : c.priority = 4) \o
  SelectSeq(parsed, LAMBDA c : c.priority = 5) \o SelectSeq(parsed, LAMBDA c : c.priority = 6)

\* the candidates of the lines that are not skipped and have a title, in line order
CandidatesOf(lines, classes) ==
  SelectSeq([k \in 1..Len(lines) |-> CandidateOfLine(lines[k], classes)], LAMBDA c : c.title # <<>>)

\* text.split("\n").filter((line) => line.trim()), without the header rows
TextLines(text) == SelectSeq(Split(text, "\n"), LAMBDA line : Trim(line) # <<>> /\ ~IsHeaderRow(ToLowerCase(line)))

parseTextToAssignments(text, classes) == SortByPriority(CandidatesOf(TextLines(text), classes))

(***************************************************************************)
(* lib/data.ts: the late penalty, and its two callers (GradeDialog of       *)
(* item-table.tsx, calculateClassGrade of grade-tracker.tsx).               *)
(***************************************************************************)
\* export const defaultClasses: ClassInfo[] = []
defaultClasses == <<>>

\* classInfo?.hasLatePenalty of classes.find((c) => c.code === classCode)
FoundLatePenalty(hits) == hits # <<>> /\ hits[1].hasLatePenalty

ClassHasLatePenalty(classes, classCode) == FoundLatePenalty(SelectSeq(classes, LAMBDA c : c.code = classCode))

\* Math.max(0, grade - daysLate * 10)
PenalizedGrade(grade, daysLate) == IF grade - daysLate * 10 > 0 THEN grade - daysLate * 10 ELSE 0

calculateLatePenalty(grade, daysLate, classCode) ==
  IF ~ClassHasLatePenalty(defaultClasses, classCode) \/ daysLate <= 0 THEN grade ELSE PenalizedGrade(grade, daysLate)

\* GradeDialog: the grade shown on the button of a graded item, classList being the classes of
\* the current semester
DisplayedGrade(item, classList) ==
  IF item.isLate /\ ClassHasLatePenalty(classList, item.classCode) /\ item.daysLate # 0
  THEN calculateLatePenalty(item.grade, item.daysLate, item.classCode)
  ELSE item.grade

\* calculateClassGrade: the effectiveGrade added to the category of a graded item
EffectiveGrade(item, classCode) ==
  IF item.isLate /\ item.daysLate # 0 /\ item.daysLate > 0
  THEN calculateLatePenalty(item.grade, item.daysLate, classCode)
  ELSE item.grade

(***************************************************************************)
(* components/import-data.tsx: ImportData.handleImport                     *)
(***************************************************************************)
EmptyInputMessage == "Please paste your spreadsheet data first."

ZeroYieldMessage == "No valid rows found. Make sure your data has a header row and at least one row of assignments. Use Tab or comma to separate columns."

\* new Date(Date.now() + 120 days).toISOString().slice(0, 10) for Today = 2026-11-02
TodayPlus120 == NumToString(CurrentYear + 1) \o <<"-","0","3","-","0","2">>

\* the weighting handleImport and handleAddClass attach to a class; weights in hundredths
DefaultWeights ==
  [exam    |-> [weight |-> 40, label |-> "Exams"],
   final   |-> [weight |-> 25, label |-> "Final Exam"],
   hw      |-> [weight |-> 15, label |-> "Homework"],
   quiz    |-> [weight |-> 10, label |-> "Quizzes"],
   project |-> [weight |-> 10, label |-> "Projects"]]

ClassCodes(classes) == {classes[k].code : k \in 1..Len(classes)}

\* `semester-${Date.now()}`
SemesterIdAt(t) == "semester-" \o ToString(t)

\* the Semester object handleImport builds from the parsed classes
NewSemester(classes, t) ==
  [id |-> SemesterIdAt(t), name |-> "My Semester", startDate |-> Today, endDate |-> TodayPlus120,
   classes |-> classes, gradeWeights |-> [c \in ClassCodes(classes) |-> DefaultWeights]]

\* { ...item, semesterId }
WithSemester(item, semesterId) == [f \in (DOMAIN item) \cup {"semesterId"} |-> IF f = "semesterId" THEN semesterId ELSE item[f]]

StampAll(its, semesterId) == [k \in 1..Len(its) |-> WithSemester(its[k], semesterId)]

\* a blank check that forgets to trim
IsEmptyString(text) == text = <<>>

\* !pasteText.trim()
IsBlank(text) == Trim(text) = <<>>

\* a zero-yield check that never fires
NeverZeroYield(its) == Len(its) < 0

\* items.length === 0
IsZeroYield(its) == Len(its) = 0

\* isAddMode && existingSemesters.length > 0 && currentSemesterId
TakesAddBranch(mode, existingSemesters, curId) == mode = "add" /\ Len(existingSemesters) > 0 /\ curId # ""

\* existingSemesters.find((s) => s.id === targetSemesterId) ?? existingSemesters[0]
FindCurrentSem(existingSemesters, targetSemesterId) ==
  LET hit == {k \in 1..Len(existingSemesters) : existingSemesters[k].id = targetSemesterId}
  IN  IF hit = {} THEN existingSemesters[1] ELSE existingSemesters[CHOOSE k \in hit : \A j \in hit : k <= j]

\* a merge that pushes every parsed class
MergeClassesAll(merged, classes) == merged \o classes

\* the loop over the parsed classes: push those whose code is not yet among the merged ones
RECURSIVE MergeClasses(_, _)
MergeClasses(merged, classes) ==
  IF classes = <<>> THEN merged
  ELSE IF Head(classes).code \in ClassCodes(merged) THEN MergeClasses(merged, Tail(classes))
  ELSE MergeClasses(Append(merged, Head(classes)), Tail(classes))

\* a merge that hands over the new items only
MergedItemsNewOnly(existingItems, itemsWithSemester, targetSemesterId) == StampAll(itemsWithSemester, targetSemesterId)

\* [...existingItems, ...itemsWithSemester.map((i) => ({ ...i, semesterId: targetSemesterId }))]
MergedItems(existingItems, itemsWithSemester, targetSemesterId) == existingItems \o StampAll(itemsWithSemester, targetSemesterId)

\* { ...currentSem, classes: mergedClasses }
UpdatedSemester(currentSem, mergedClasses) == [currentSem EXCEPT !.classes = mergedClasses]

\* a collection that keeps the updated semester only
OnlyUpdatedSemester(existingSemesters, targetSemesterId, updatedSemester) == <<updatedSemester>>

\* existingSemesters.map((s) => s.id === targetSemesterId ? updatedSemester : s)
UpdatedSemesters(existingSemesters, targetSemesterId, updatedSemester) ==
  [k \in 1..Len(existingSemesters) |-> IF existingSemesters[k].id = targetSemesterId THEN updatedSemester ELSE existingSemesters[k]]

NoCall == [called |-> FALSE]

\* onImport(itemsWithSemester, classes, semester, "replace")
ReplaceCall(parsed, semester) ==
  [error |-> "", parseCalled |-> TRUE, parsed |-> parsed,
   onImport |-> [called |-> TRUE,
                 items |-> StampAll(parsed.items, semester.id),
                 classes |-> parsed.classes,
                 semester |-> semester,
                 mode |-> "replace",
                 hasUpdated |-> FALSE,
                 updatedSemesters |-> <<>>]]

\* onImport(mergedItems, mergedClasses, updatedSemester, "add", updatedSemesters)
AddCallOf(existingItems, existingSemesters, curId, parsed, itemsWithSemester, mergedClasses, updatedSemester) ==
  [error |-> "", parseCalled |-> TRUE, parsed |-> parsed,
   onImport |-> [called |-> TRUE,
                 items |-> MergedItems(existingItems, itemsWithSemester, curId),
                 classes |-> mergedClasses,
                 semester |-> updatedSemester,
                 mode |-> "add",
                 hasUpdated |-> TRUE,
                 updatedSemesters |-> UpdatedSemesters(existingSemesters, curId, updatedSemester)]]

AddCallMerged(existingItems, existingSemesters, curId, parsed, semester, currentSem, mergedClasses) ==
  AddCallOf(existingItems, existingSemesters, curId, parsed, StampAll(parsed.items, semester.id), mergedClasses, UpdatedSemester(currentSem, mergedClasses))

AddCallInto(existingItems, existingSemesters, curId, parsed, semester, currentSem) ==
  AddCallMerged(existingItems, existingSemesters, curId, parsed, semester, currentSem, MergeClasses(currentSem.classes, parsed.classes))

\* the add branch of handleImport
AddCall(existingItems, existingSemesters, curId, parsed, semester) ==
  AddCallInto(existingItems, existingSemesters, curId, parsed, semester, FindCurrentSem(existingSemesters, curId))

\* handleImport after the zero-yield check, with the Semester object built from the parsed classes
ImportInto(mode, existingItems, existingSemesters, curId, parsed, semester) ==
  IF TakesAddBranch(mode, existingSemesters, curId)
  THEN AddCall(existingItems, existingSemesters, curId, parsed, semester)
  ELSE ReplaceCall(parsed, semester)

\* handleImport after parseSpreadsheet returned parsed
ImportParsed(mode, existingItems, existingSemesters, curId, parsed, t) ==
  IF IsZeroYield(parsed.items)
  THEN [error |-> ZeroYieldMessage, parseCalled |-> TRUE, parsed |-> parsed, onImport |-> NoCall]
  ELSE ImportInto(mode, existingItems, existingSemesters, curId, parsed, NewSemester(parsed.classes, t))

\* handleImport with the props (mode, existingItems, existingSemesters, currentSemesterId) and the
\* pasted text, at clock t with random id parts rnd: the error it sets, whether it parsed,
\* and the onImport call it makes
handleImport(mode, existingItems, existingSemesters, curId, pasteText, t, rnd) ==
  IF IsBlank(pasteText)
  THEN [error |-> EmptyInputMessage, parseCalled |-> FALSE, parsed |-> [items |-> <<>>, classes |-> <<>>], onImport |-> NoCall]
  ELSE ImportParsed(mode, existingItems, existingSemesters, curId, parseSpreadsheet(pasteText, t, rnd), t)

(***************************************************************************)
(* The AddAssignment dialog: the manual form, the Smart Paste tab and the   *)
(* items they hand to the Dashboard.                                        *)
(***************************************************************************)
\* the useState values of a dialog after construction.  timers holds the setTimeout callbacks
\* that have not run yet, each with the importText and classes its closure captured and, as a
\* record of history read by no handler, whether resetForm ran since the timer was set
ClosedDialog ==
  [open |-> FALSE, title |-> <<>>, classCode |-> <<>>, type |-> TypeAssignment, dueDate |-> <<>>,
   importText |-> <<>>, parsedItems |-> <<>>, isParsing |-> FALSE, timers |-> <<>>]

\* resetForm: the form fields, importText and parsedItems go back to their initial values
resetForm(d) ==
  [d EXCEPT !.title = <<>>, !.classCode = <<>>, !.type = TypeAssignment, !.dueDate = <<>>,
            !.importText = <<>>, !.parsedItems = <<>>,
            !.timers = [k \in 1..Len(d.timers) |-> [d.timers[k] EXCEPT !.resetSince = TRUE]]]

\* classList.find((c) => c.code === classCode)?.name || ""
ClassNameOf(classList, classCode) ==
  IF \E k \in 1..Len(classList) : classList[k].code = classCode
  THEN classList[CHOOSE k \in 1..Len(classList) : classList[k].code = classCode /\ \A j \in 1..(k - 1) : classList[j].code # classCode].name
  ELSE <<>>

\* handleManualSubmit: the item built from the manual form
ManualItem(d, classList, t, rnd) ==
  [id |-> "custom-" \o ToString(t) \o "-" \o rnd,
   title |-> d.title,
   class |-> ClassNameOf(classList, d.classCode),
   classCode |-> d.classCode,
   type |-> d.type,
   status |-> "not-started",
   dueDate |-> d.dueDate,
   time |-> Undefined]

\* handleImportParsed: one item of itemsToAdd, index counting from 0
ParsedToItem(item, index, classList, t, rnd) ==
  [id |-> ImportedId(t, index, rnd),
   title |-> item.title,
   class |-> IF item.class # <<>> THEN item.class ELSE ClassNameOf(classList, item.classCode),
   classCode |-> item.classCode,
   type |-> item.type,
   status |-> "not-started",
   dueDate |-> item.dueDate,
   time |-> Undefined]

\* parsedItems.filter((item) => item.title && item.dueDate)
CompleteCandidates(parsedItems) == SelectSeq(parsedItems, LAMBDA item : item.title # <<>> /\ item.dueDate # <<>>)

ItemsOfCandidates(kept, classList, t, rnd) == [k \in 1..Len(kept) |-> ParsedToItem(kept[k], k - 1, classList, t, rnd)]

\* handleImportParsed: itemsToAdd (one random suffix is drawn for the batch)
ItemsToAdd(parsedItems, classList, t, rnd) == ItemsOfCandidates(CompleteCandidates(parsedItems), classList, t, rnd)

\* removeParsedItem(index): prev.filter((_, i) => i !== index), index counting from 1 here
removeParsedItem(parsedItems, index) == [k \in 1..(Len(parsedItems) - 1) |-> IF k < index THEN parsedItems[k] ELSE parsedItems[k + 1]]

(***************************************************************************)
(* components/semester-manager.tsx: the Dashboard                          *)
(***************************************************************************)
\* createEmptySemester() of lib/data.ts
EmptySemester ==
  [id |-> "my-semester", name |-> "My Semester",
   startDate |-> <<"2","0","2","6","-","0","1","-","0","1">>,
   endDate |-> <<"2","0","2","6","-","1","2","-","3","1">>,
   classes |-> <<>>, gradeWeights |-> [c \in {} |-> DefaultWeights]]

initialSemesters == <<EmptySemester>>

\* a handleImportData whose replace branch forgets setCurrentSemesterId
handleImportDataStaleCurrent(call, oldSemesters, oldCurrent) ==
  IF call.mode = "add" /\ call.hasUpdated
  THEN [items |-> call.items, semesters |-> call.updatedSemesters, currentSemesterId |-> oldCurrent]
  ELSE [items |-> call.items, semesters |-> <<call.semester>>, currentSemesterId |-> oldCurrent]

\* a handleImportData whose replace branch keeps the old semesters next to the new one
handleImportDataKeeping(call, oldSemesters, oldCurrent) ==
  IF call.mode = "add" /\ call.hasUpdated
  THEN [items |-> call.items, semesters |-> call.updatedSemesters, currentSemesterId |-> oldCurrent]
  ELSE [items |-> call.items, semesters |-> Append(oldSemesters, call.semester), currentSemesterId |-> call.semester.id]

\* Dashboard.handleImportData: the next items, semesters and current semester id
handleImportData(call, oldSemesters, oldCurrent) ==
  IF call.mode = "add" /\ call.hasUpdated
  THEN [items |-> call.items, semesters |-> call.updatedSemesters, currentSemesterId |-> oldCurrent]
  ELSE [items |-> call.items, semesters |-> <<call.semester>>, currentSemesterId |-> call.semester.id]

(***************************************************************************)
(* The texts a user pastes into the import textarea (bounded inputs).      *)
(***************************************************************************)
\* the empty textarea
PasteBlank == <<>>

\* whitespace only
PasteSpaces == <<" ","\n","\t"," ">>

\* a header line and no data line
PasteHeaderOnly == <<"C","l","a","s","s",",","T","i","t","l","e",",","D","u","e"," ","D","a","t","e">>

\* a data row whose class and title cells are empty
PasteEmptyRow == <<"C","l","a","s","s",",","T","i","t","l","e","\n",",",",">>

\* one row, comma separated
PasteOne == <<"C","l","a","s","s",",","T","i","t","l","e",",","D","u","e"," ","D","a","t","e","\n","M","A","T","H","1","0","1",",","H","W"," ","1",",","2","/","1","5","/","2","0","2","6">>

\* a class cell of the form code - name
PasteDash == <<"C","l","a","s","s",",","T","i","t","l","e","\n","m","a","t","h","1","0","1"," ","-"," ","C","a","l","c","u","l","u","s"," ","I",",","Q","u","i","z"," ","1">>

\* two rows of the component's EXAMPLE, tab separated
PasteTwo == <<"C","l","a","s","s","\t","T","i","t","l","e","\t","T","y","p","e","\t","D","u","e"," ","D","a","t","e","\t","T","i","m","e","\n","M","A","T","H","1","0","1","\t","H","o","m","e","w","o","r","k"," ","1","\t","h","o","m","e","w","o","r","k","\t","2","/","1","5","/","2","0","2","6","\t","1","1",":","5","9"," ","P","M","\r","\n","C","S","2","0","0","\t","P","r","o","j","e","c","t"," ","P","r","o","p","o","s","a","l","\t","p","r","o","j","e","c","t","\t","M","a","r"," ","1",","," ","2","0","2","6">>

\* a date cell that names no calendar day
PasteBadDate == <<"T","i","t","l","e",",","D","u","e"," ","D","a","t","e","\n","E","s","s","a","y",",","1","3","/","4","5","/","2","0","2","6">>

PasteTexts == {PasteBlank, PasteSpaces, PasteHeaderOnly, PasteEmptyRow, PasteOne, PasteDash, PasteTwo, PasteBadDate}

\* the random parts Math.random().toString(36).slice(2, 9) can take (two of them)
RandomSuffixes == {"k3x9a1b", "p0q7zz2"}

\* the 0-based indices i of the data lines of a pasted text
RowIndices(text) == 1..(Len(NonBlankLines(text)) - 1)

(***************************************************************************)
(* The Dashboard: state after construction, and its handlers.              *)
(***************************************************************************)
\* the clock stops the model at MaxTime
MaxTime == 3

\* the longest class list the "Add Class" form is used on
MaxClasses == 2

\* Dashboard.handleAddItem: [...prev, { ...item, semesterId: currentSemesterId }]
handleAddItem(prev, item, semesterId) == Append(prev, WithSemester(item, semesterId))

\* Dashboard.handleAddItems: [...prev, ...newItems.map((item) => ({ ...item, semesterId: currentSemesterId }))]
handleAddItems(prev, newItems, semesterId) == prev \o StampAll(newItems, semesterId)

\* currentClasses: currentSemester?.classes || defaultClasses
ClassesOfCurrent(hits) == IF hits = <<>> THEN defaultClasses ELSE hits[1].classes

currentClasses == ClassesOfCurrent(SelectSeq(semesters, LAMBDA sem : sem.id = currentSemesterId))

NoImport == [outcome |-> "none"]

\* no pure function has been called
Idle == [fn |-> "none"]

NotStored == [has |-> FALSE]

\* the mount effect has queued nothing
NoQueue == [has |-> FALSE]

Init ==
  /\ items = <<>>
  /\ semesters = initialSemesters
  /\ currentSemesterId = "my-semester"
  /\ isLoaded = FALSE
  /\ storage = [items |-> NotStored, semesters |-> NotStored, current |-> NotStored]
  /\ error = ""
  /\ lastImport = NoImport
  /\ now = 1
  /\ dateText = <<>>
  /\ dateOut = NoImport
  /\ callArgs = Idle
  /\ callResult = Idle
  /\ dialog = ClosedDialog
  /\ queued = NoQueue

\* save effects that write whether or not the load has completed
SaveEffectsUnguarded(stored, its, sems, cur, loaded) ==
  [items |-> [has |-> TRUE, value |-> its], semesters |-> [has |-> TRUE, value |-> sems], current |-> [has |-> TRUE, value |-> cur]]

\* the three records as save...ToStorage writes them, each whole
SaveAll(its, sems, cur) == [items |-> [has |-> TRUE, value |-> its], semesters |-> [has |-> TRUE, value |-> sems], current |-> [has |-> TRUE, value |-> cur]]

\* the three save effects after a commit: if (isLoaded) save...ToStorage(...)
SaveEffects(stored, its, sems, cur, loaded) == IF loaded THEN SaveAll(its, sems, cur) ELSE stored

\* the effects of the first commit: the mount effect reads the three records from storage and
\* queues the state updates, then the save effects run on the state of the first render
Mount ==
  /\ ~isLoaded /\ ~queued.has
  /\ queued' = [has |-> TRUE,
                items |-> IF storage.items.has THEN storage.items.value ELSE <<>>,
                semesters |-> IF storage.semesters.has THEN storage.semesters.value ELSE initialSemesters,
                current |-> IF storage.current.has THEN storage.current.value ELSE "my-semester"]
  /\ storage' = SaveEffects(storage, items, semesters, currentSemesterId, isLoaded)
  /\ UNCHANGED <<items, semesters, currentSemesterId, isLoaded, error, lastImport, now, dateText, dateOut, callArgs, callResult, dialog>>

\* the commit of the queued updates (the loaded records and isLoaded), then the save effects run
LoadFromStorage ==
  /\ ~isLoaded /\ queued.has
  /\ items' = queued.items
  /\ semesters' = queued.semesters
  /\ currentSemesterId' = queued.current
  /\ isLoaded' = TRUE
  /\ queued' = NoQueue
  /\ storage' = SaveEffects(storage, items', semesters', currentSemesterId', isLoaded')
  /\ UNCHANGED <<error, lastImport, now, dateText, dateOut, callArgs, callResult, dialog>>

\* const showImport = items.length === 0 && isLoaded
showImport == Len(items) = 0 /\ isLoaded

\* what one call of handleImport leaves behind: its result r and, through onImport,
\* Dashboard.handleImportData
ApplyImport(mode, text, r) ==
  LET next == IF r.onImport.called THEN handleImportData(r.onImport, semesters, currentSemesterId)
              ELSE [items |-> items, semesters |-> semesters, currentSemesterId |-> currentSemesterId]
  IN  /\ error' = r.error
      /\ lastImport' = [outcome |-> IF r.onImport.called THEN r.onImport.mode ELSE IF r.parseCalled THEN "zero" ELSE "empty",
                        requested |-> mode, text |-> text, parseCalled |-> r.parseCalled,
                        parsed |-> r.parsed, onImport |-> r.onImport, t |-> now,
                        before |-> [items |-> items, semesters |-> semesters, currentSemesterId |-> currentSemesterId, error |-> error]]
      /\ items' = next.items
      /\ semesters' = next.semesters
      /\ currentSemesterId' = next.currentSemesterId
      /\ now' = now + 1

\* the first-run screen: <ImportData onImport={handleImportData} />, props at their defaults;
\* the button is disabled while the text is blank
ImportReplace ==
  /\ showImport
  /\ now < MaxTime
  /\ \E text \in PasteTexts : \E rnd \in [RowIndices(text) -> RandomSuffixes] :
       /\ ~IsBlank(text)
       /\ ApplyImport("replace", text, handleImport("replace", <<>>, <<>>, "my-semester", text, now, rnd))
  /\ storage' = SaveAll(items', semesters', currentSemesterId')
  /\ UNCHANGED <<isLoaded, dateText, dateOut, callArgs, callResult, dialog, queued>>

\* the "Add from spreadsheet" sheet: <ImportData mode="add" existingItems={items} ... />
ImportAdd ==
  /\ isLoaded /\ ~showImport
  /\ now < MaxTime
  /\ \E text \in PasteTexts : \E rnd \in [RowIndices(text) -> RandomSuffixes] :
       /\ ~IsBlank(text)
       /\ ApplyImport("add", text, handleImport("add", items, semesters, currentSemesterId, text, now, rnd))
  /\ storage' = SaveAll(items', semesters', currentSemesterId')
  /\ UNCHANGED <<isLoaded, dateText, dateOut, callArgs, callResult, dialog, queued>>

\* SemesterManager.handleAddSemester with the form at its defaults ("Fall", this year, no name):
\* Dashboard.handleAddSemester, then onSemesterChange(id)
HandleAddSemester ==
  /\ isLoaded /\ ~showImport
  /\ now < MaxTime
  /\ semesters' = Append(semesters, [id |-> SemesterIdAt(now), name |-> "Fall 2026",
                                     startDate |-> NumToString(CurrentYear) \o <<"-","0","1","-","0","1">>,
                                     endDate |-> NumToString(CurrentYear) \o <<"-","0","5","-","1","5">>,
                                     classes |-> <<>>, gradeWeights |-> [c \in {} |-> DefaultWeights]])
  /\ currentSemesterId' = SemesterIdAt(now)
  /\ now' = now + 1
  /\ lastImport' = NoImport
  /\ storage' = SaveAll(items, semesters', currentSemesterId')
  /\ UNCHANGED <<items, isLoaded, error, dateText, dateOut, callArgs, callResult, dialog, queued>>

\* Dashboard.handleSemesterChange, from the semester dropdown
HandleSemesterChange ==
  /\ isLoaded /\ ~showImport
  /\ \E k \in 1..Len(semesters) :
       /\ semesters[k].id # currentSemesterId
       /\ currentSemesterId' = semesters[k].id
  /\ lastImport' = NoImport
  /\ storage' = SaveAll(items, semesters, currentSemesterId')
  /\ UNCHANGED <<items, semesters, isLoaded, error, now, dateText, dateOut, callArgs, callResult, dialog, queued>>

\* a filter that keeps every item
ItemsAllKept(its, semesterId) == its

\* items.filter((i) => i.semesterId !== semesterId); a legacy item has no semesterId
ItemsNotOf(its, semesterId) == SelectSeq(its, LAMBDA i : ~("semesterId" \in DOMAIN i /\ i.semesterId = semesterId))

\* Dashboard.handleDeleteSemester(currentSemesterId); the button exists while semesters.length > 1
HandleDeleteSemester ==
  /\ isLoaded /\ ~showImport
  /\ Len(semesters) > 1
  /\ LET remaining == SelectSeq(semesters, LAMBDA sem : sem.id # currentSemesterId)
     IN  /\ semesters' = remaining
         /\ items' = ItemsNotOf(items, currentSemesterId)
         /\ currentSemesterId' = IF Len(remaining) > 0 THEN remaining[1].id ELSE currentSemesterId
  /\ lastImport' = NoImport
  /\ storage' = SaveAll(items', semesters', currentSemesterId')
  /\ UNCHANGED <<isLoaded, error, now, dateText, dateOut, callArgs, callResult, dialog, queued>>

\* the class codes typed into the "Add Class" form (bounded inputs)
FormClassCodes == {<<"m","a","t","h"," ","1","0","1">>, <<"C","S","2","0","0">>}

\* SemesterManager.handleAddClass: the ClassInfo built from the form, code upper-cased, whitespace removed
FormClassInfo(newClassCode, newClassName, hasLatePenalty) ==
  [code |-> SelectSeq(ToUpperCase(newClassCode), LAMBDA c : ~IsSpace(c)), name |-> newClassName, color |-> "bg-chart-1", hasLatePenalty |-> hasLatePenalty]

\* Dashboard.handleAddClass(semesterId, classInfo) on one semester
AddClassTo(sem, classInfo) ==
  [sem EXCEPT !.classes = Append(sem.classes, classInfo),
              !.gradeWeights = [c \in (DOMAIN sem.gradeWeights) \cup {classInfo.code} |-> IF c = classInfo.code THEN DefaultWeights ELSE sem.gradeWeights[c]]]

\* SemesterManager.handleAddClass, then Dashboard.handleAddClass(currentSemesterId, classInfo)
HandleAddClass ==
  /\ isLoaded /\ ~showImport
  /\ \E code \in FormClassCodes : \E late \in BOOLEAN :
       /\ \A k \in 1..Len(semesters) : Len(semesters[k].classes) < MaxClasses
       /\ semesters' = [k \in 1..Len(semesters) |->
                          IF semesters[k].id = currentSemesterId
                          THEN AddClassTo(semesters[k], FormClassInfo(code, <<"C","o","u","r","s","e">>, late))
                          ELSE semesters[k]]
  /\ lastImport' = NoImport
  /\ storage' = SaveAll(items, semesters', currentSemesterId)
  /\ UNCHANGED <<items, currentSemesterId, isLoaded, error, now, dateText, dateOut, callArgs, callResult, dialog, queued>>

\* the "Replace all" button, confirmed
ReplaceAll ==
  /\ isLoaded /\ ~showImport
  /\ items' = <<>>
  /\ semesters' = initialSemesters
  /\ currentSemesterId' = "my-semester"
  /\ lastImport' = NoImport
  /\ storage' = SaveAll(items', semesters', currentSemesterId')
  /\ UNCHANGED <<isLoaded, error, now, dateText, dateOut, callArgs, callResult, dialog, queued>>

\* classes.filter((c) => c.code !== classCode) in the semester semesterId
WithoutClass(sems, semesterId, classCode) ==
  [k \in 1..Len(sems) |->
     IF sems[k].id = semesterId
     THEN [sems[k] EXCEPT !.classes = SelectSeq(@, LAMBDA c : c.code # classCode)]
     ELSE sems[k]]

\* prev.filter((i) => !(i.semesterId === semesterId && i.classCode === classCode))
ItemsNotOfClass(its, semesterId, classCode) ==
  SelectSeq(its, LAMBDA i : ~("semesterId" \in DOMAIN i /\ i.semesterId = semesterId /\ i.classCode = classCode))

\* Dashboard.handleDeleteClass(currentSemesterId, cls.code), from the class list of SemesterManager
HandleDeleteClass ==
  /\ isLoaded /\ ~showImport
  /\ \E k \in 1..Len(currentClasses) :
       /\ semesters' = WithoutClass(semesters, currentSemesterId, currentClasses[k].code)
       /\ items' = ItemsNotOfClass(items, currentSemesterId, currentClasses[k].code)
  /\ lastImport' = NoImport
  /\ storage' = SaveAll(items', semesters', currentSemesterId)
  /\ UNCHANGED <<currentSemesterId, isLoaded, error, now, dateText, dateOut, callArgs, callResult, dialog, queued>>

\* the manual form of the AddAssignment dialog with a title, a class of the current semester and
\* a due date
FilledForm(classCode) ==
  [ClosedDialog EXCEPT !.open = TRUE, !.title = <<"E","s","s","a","y">>, !.classCode = classCode,
                       !.dueDate = <<"2","0","2","6","-","0","3","-","0","1">>]

\* the AddAssignment dialog used for one manual item: handleManualSubmit, then
\* Dashboard.handleAddItem; the dialog is closed and reset afterwards
HandleAddItem ==
  /\ isLoaded /\ ~showImport
  /\ now < MaxTime
  /\ \E k \in 1..Len(currentClasses) : \E rnd \in RandomSuffixes :
       items' = handleAddItem(items, ManualItem(FilledForm(currentClasses[k].code), currentClasses, now, rnd), currentSemesterId)
  /\ now' = now + 1
  /\ lastImport' = NoImport
  /\ storage' = SaveAll(items', semesters, currentSemesterId)
  /\ UNCHANGED <<semesters, currentSemesterId, isLoaded, error, dateText, dateOut, callArgs, callResult, dialog, queued>>

\* the line pasted into the Smart Paste tab (bounded input)
SmartPasteTexts == {<<"Q","u","i","z"," ","1"," ","F","e","b"," ","2","0">>}

\* the AddAssignment dialog used for a Smart Paste: the text is parsed, handleImportParsed hands
\* the items to Dashboard.handleAddItems; the dialog is closed and reset afterwards
HandleAddItems ==
  /\ isLoaded /\ ~showImport
  /\ now < MaxTime
  /\ \E text \in SmartPasteTexts : \E rnd \in RandomSuffixes :
       /\ Len(ItemsToAdd(parseTextToAssignments(text, currentClasses), currentClasses, now, rnd)) > 0
       /\ items' = handleAddItems(items, ItemsToAdd(parseTextToAssignments(text, currentClasses), currentClasses, now, rnd), currentSemesterId)
  /\ now' = now + 1
  /\ lastImport' = NoImport
  /\ storage' = SaveAll(items', semesters, currentSemesterId)
  /\ UNCHANGED <<semesters, currentSemesterId, isLoaded, error, dateText, dateOut, callArgs, callResult, dialog, queued>>

Next ==
  \/ Mount
  \/ LoadFromStorage
  \/ ImportReplace
  \/ ImportAdd
  \/ HandleAddSemester
  \/ HandleSemesterChange
  \/ HandleDeleteSemester
  \/ HandleAddClass
  \/ HandleDeleteClass
  \/ HandleAddItem
  \/ HandleAddItems
  \/ ReplaceAll

Spec == Init /\ [][Next]_vars

(***************************************************************************)
(* ImportData mounted on a host state: the props existingItems,            *)
(* existingSemesters and currentSemesterId are the host's items, semesters  *)
(* and currentSemesterId, and onImport is Dashboard.handleImportData.       *)
(***************************************************************************)
\* the number of handleImport calls followed from one mounting
MaxImports == 1

Math101 == <<"M","A","T","H","1","0","1">>

\* an item of semester "semester-0"
StoredItem ==
  [id |-> "item-1", title |-> <<"E","s","s","a","y">>, class |-> <<"C","a","l","c","u","l","u","s">>,
   classCode |-> Math101, type |-> TypeAssignment, status |-> "in-progress",
   dueDate |-> <<"2","0","2","6","-","0","3","-","0","1">>, time |-> Undefined, semesterId |-> "semester-0"]

\* an item stored before semesters existed: it has no semesterId
LegacyItem ==
  [id |-> "item-2", title |-> <<"Q","u","i","z">>, class |-> <<"C","a","l","c","u","l","u","s">>,
   classCode |-> Math101, type |-> TypeAssignment, status |-> "not-started",
   dueDate |-> <<"2","0","2","6","-","0","4","-","1","0">>, time |-> Undefined]

\* a semester with one class
StoredSemester ==
  [id |-> "semester-0", name |-> "Spring 2026",
   startDate |-> <<"2","0","2","6","-","0","1","-","0","1">>,
   endDate |-> <<"2","0","2","6","-","0","5","-","1","5">>,
   classes |-> << [code |-> Math101, name |-> <<"C","a","l","c","u","l","u","s">>, color |-> "bg-chart-1", hasLatePenalty |-> FALSE] >>,
   gradeWeights |-> [c \in {Math101} |-> DefaultWeights]]

PropItems == {<<>>, <<StoredItem, LegacyItem>>}

PropSemesters == {<<>>, <<StoredSemester>>, <<StoredSemester, EmptySemester>>}

\* the currentSemesterId prop: empty (its default), the id of a semester, an id of no semester
PropSemesterIds == {"", "semester-0", "my-semester", "semester-9"}

InitImport ==
  /\ items \in PropItems
  /\ semesters \in PropSemesters
  /\ currentSemesterId \in PropSemesterIds
  /\ isLoaded = TRUE
  /\ storage = SaveAll(items, semesters, currentSemesterId)
  /\ error = ""
  /\ lastImport = NoImport
  /\ now = 1
  /\ dateText = <<>>
  /\ dateOut = NoImport
  /\ callArgs = Idle
  /\ callResult = Idle
  /\ dialog = ClosedDialog
  /\ queued = NoQueue

\* one click on the Import button, in either mode, with any pasted text
ImportWithProps ==
  /\ now <= MaxImports
  /\ \E mode \in {"add", "replace"} : \E text \in PasteTexts : \E rnd \in [RowIndices(text) -> RandomSuffixes] :
       ApplyImport(mode, text, handleImport(mode, items, semesters, currentSemesterId, text, now, rnd))
  /\ storage' = SaveAll(items', semesters', currentSemesterId')
  /\ UNCHANGED <<isLoaded, dateText, dateOut, callArgs, callResult, dialog, queued>>

NextImport == ImportWithProps

SpecImport == InitImport /\ [][NextImport]_vars

(***************************************************************************)
(* The Dashboard without the "Add Class" form: the classes of a semester    *)
(* come from imports.  Every other handler is as in Spec.  The browser's    *)
(* storage is empty or holds the records of an earlier session.             *)
(***************************************************************************)
InitSession ==
  /\ items = <<>>
  /\ semesters = initialSemesters
  /\ currentSemesterId = "my-semester"
  /\ isLoaded = FALSE
  /\ storage \in {[items |-> NotStored, semesters |-> NotStored, current |-> NotStored],
                  SaveAll(<<StoredItem>>, <<StoredSemester>>, "semester-0")}
  /\ error = ""
  /\ lastImport = NoImport
  /\ now = 1
  /\ dateText = <<>>
  /\ dateOut = [outcome |-> "none"]
  /\ callArgs = Idle
  /\ callResult = Idle
  /\ dialog = ClosedDialog
  /\ queued = NoQueue

NextSession ==
  \/ Mount
  \/ LoadFromStorage
  \/ ImportReplace
  \/ ImportAdd
  \/ HandleAddSemester
  \/ HandleSemesterChange
  \/ HandleDeleteSemester
  \/ HandleDeleteClass
  \/ HandleAddItem
  \/ HandleAddItems
  \/ ReplaceAll

SpecSession == InitSession /\ [][NextSession]_vars

(***************************************************************************)
(* The date readers as pure functions: a date cell or a line of text is     *)
(* drawn, and parseDate or extractDate is applied to it once.               *)
(***************************************************************************)
DateYears == {2025, 2026, 2027}

DateMonths == {2, 9, 12}

DateDays == {5, 15}

\* month name with day and four-digit year, M/D/YYYY, M-D-YYYY, YYYY-MM-DD, YYYY/MM/DD
DateSpellings == {"name", "slash", "dash", "iso", "isoSlash"}

MonthLabels == <<<<"J","a","n">>, <<"F","e","b">>, <<"M","a","r">>, <<"A","p","r">>, <<"M","a","y">>, <<"J","u","n">>, <<"J","u","l">>, <<"A","u","g">>, <<"S","e","p">>, <<"O","c","t">>, <<"N","o","v">>, <<"D","e","c">>>>

\* the date y-m-d written in the spelling sp
SpellDate(sp, y, m, d) ==
  CASE sp = "name"     -> MonthLabels[m] \o <<" ">> \o NumToString(d) \o <<",", " ">> \o NumToString(y)
    [] sp = "slash"    -> NumToString(m) \o <<"/">> \o NumToString(d) \o <<"/">> \o NumToString(y)
    [] sp = "dash"     -> NumToString(m) \o <<"-">> \o NumToString(d) \o <<"-">> \o NumToString(y)
    [] sp = "iso"      -> NumToString(y) \o <<"-">> \o PadStart2(NumToString(m)) \o <<"-">> \o PadStart2(NumToString(d))
    [] sp = "isoSlash" -> NumToString(y) \o <<"/">> \o PadStart2(NumToString(m)) \o <<"/">> \o PadStart2(NumToString(d))
    [] sp = "slashYY"  -> NumToString(m) \o <<"/">> \o NumToString(d) \o <<"/">> \o PadStart2(NumToString(y))
    [] sp = "dashYY"   -> NumToString(m) \o <<"-">> \o NumToString(d) \o <<"-">> \o PadStart2(NumToString(y))

\* cells that spell no calendar date
OddCells == {<<"1","3","/","4","5","/","2","0","2","6">>, <<"2","/","3","0","/","2","0","2","6">>, <<"s","o","o","n">>, <<"F","e","b"," ","3","1">>, <<>>}

\* M/D/YY and M-D-YY, the year written with two digits
ShortYearSpellings == {"slashYY", "dashYY"}

ShortYears == {0, 5, 26, 99}

ShortYearTexts == {SpellDate(sp, yy, m, d) : sp \in ShortYearSpellings, yy \in ShortYears, m \in DateMonths, d \in DateDays}

DateTexts == {SpellDate(sp, y, m, d) : sp \in DateSpellings, y \in DateYears, m \in DateMonths, d \in DateDays} \cup OddCells \cup ShortYearTexts

InitDate ==
  /\ items = <<>>
  /\ semesters = initialSemesters
  /\ currentSemesterId = "my-semester"
  /\ isLoaded = FALSE
  /\ storage = [items |-> NotStored, semesters |-> NotStored, current |-> NotStored]
  /\ error = ""
  /\ lastImport = NoImport
  /\ now = 1
  /\ dateText \in DateTexts
  /\ dateOut = NoImport
  /\ callArgs = Idle
  /\ callResult = Idle
  /\ dialog = ClosedDialog
  /\ queued = NoQueue

\* the tabular parser reads the date cell
ParseDateCell ==
  /\ dateOut.outcome = "none"
  /\ dateOut' = [outcome |-> "parseDate", out |-> parseDate(dateText)]
  /\ UNCHANGED <<items, semesters, currentSemesterId, isLoaded, storage, error, lastImport, now, dateText, callArgs, callResult, dialog, queued>>

\* the Smart Paste parser reads the date of a line
ExtractDateLine ==
  /\ dateOut.outcome = "none"
  /\ dateOut' = [outcome |-> "extractDate", out |-> extractDate(dateText)]
  /\ UNCHANGED <<items, semesters, currentSemesterId, isLoaded, storage, error, lastImport, now, dateText, callArgs, callResult, dialog, queued>>

NextDate ==
  \/ ParseDateCell
  \/ ExtractDateLine

SpecDate == InitDate /\ [][NextDate]_vars

(***************************************************************************)
(* parseSpreadsheet as a pure function: a sheet of one or two blocks, each  *)
(* a header line with the cells Class, Title, Type, Due Date and Time in    *)
(* some column order followed by its rows, is drawn and parsed once.        *)
(***************************************************************************)
TableHeaders == <<<<"C","l","a","s","s">>, <<"T","i","t","l","e">>, <<"T","y","p","e">>, <<"D","u","e"," ","D","a","t","e">>, <<"T","i","m","e">>>>

\* column orders: position -> column (1 Class, 2 Title, 3 Type, 4 Due Date, 5 Time)
ColumnOrders == {<<1, 2, 3, 4, 5>>, <<2, 1, 3, 4, 5>>, <<5, 4, 3, 2, 1>>, <<5, 1, 2, 3, 4>>, <<3, 4, 1, 2, 5>>}

CanonicalOrder == <<1, 2, 3, 4, 5>>

SheetRow(class, title, type, date, time) == <<class, title, type, date, time>>

SampleRows == {
  SheetRow(<<"M","A","T","H","1","0","1">>, <<"H","W"," ","1">>, <<"h","o","m","e","w","o","r","k">>, <<"2","/","1","5","/","2","0","2","6">>, <<"1","1",":","5","9"," ","P","M">>),
  SheetRow(<<"c","s"," ","2","0","0">>, <<"Q","u","i","z"," ","2">>, <<>>, <<>>, <<>>),
  SheetRow(<<>>, <<"E","s","s","a","y">>, <<"p","r","o","j","e","c","t">>, <<"3","/","1","/","2","0","2","6">>, <<>>),
  SheetRow(<<"M","A","T","H","1","0","1">>, <<>>, <<"e","x","a","m">>, <<"2","0","2","6","-","0","3","-","0","9">>, <<"9",":","0","0"," ","A","M">>),
  SheetRow(<<"C","S","2","0","0">>, <<"L","a","s","t"," ","t","e","s","t">>, <<"F","i","n","a","l"," ","E","x","a","m">>, <<"5","/","1","2","/","2","0","2","6">>, <<>>)}

\* the most data rows of one block
MaxRows == 2

RowLists == UNION {[1..n -> SampleRows] : n \in 1..MaxRows}

Delimiters == {<<",">>, <<"\t">>}

\* the cells of a header or a row written in the column order, joined by the delimiter
SheetLine(cells, order, delimiter) ==
  cells[order[1]] \o delimiter \o cells[order[2]] \o delimiter \o cells[order[3]] \o delimiter \o cells[order[4]] \o delimiter \o cells[order[5]]

RECURSIVE RowLines(_, _, _, _)
RowLines(rows, k, order, delimiter) ==
  IF k > Len(rows) THEN <<>>
  ELSE <<"\n">> \o SheetLine(rows[k], order, delimiter) \o RowLines(rows, k + 1, order, delimiter)

BlockText(block, delimiter) == SheetLine(TableHeaders, block.order, delimiter) \o RowLines(block.rows, 1, block.order, delimiter)

SheetText(blocks, delimiter) ==
  IF Len(blocks) = 1 THEN BlockText(blocks[1], delimiter)
  ELSE BlockText(blocks[1], delimiter) \o <<"\n">> \o BlockText(blocks[2], delimiter)

OneBlockSheets == {<<[order |-> o, rows |-> rs]>> : o \in ColumnOrders, rs \in RowLists}

\* two pasted sheets, one row each
TwoBlockSheets ==
  {<<[order |-> o1, rows |-> <<r1>>], [order |-> o2, rows |-> <<r2>>]>> :
     o1 \in {CanonicalOrder}, o2 \in ColumnOrders, r1 \in SampleRows, r2 \in SampleRows}

InitTable ==
  /\ items = <<>>
  /\ semesters = initialSemesters
  /\ currentSemesterId = "my-semester"
  /\ isLoaded = FALSE
  /\ storage = [items |-> NotStored, semesters |-> NotStored, current |-> NotStored]
  /\ error = ""
  /\ lastImport = NoImport
  /\ now = 1
  /\ dateText = <<>>
  /\ dateOut = NoImport
  /\ callArgs \in {[fn |-> "parseSpreadsheet", blocks |-> b, delimiter |-> d] : b \in OneBlockSheets \cup TwoBlockSheets, d \in Delimiters}
  /\ callResult = Idle
  /\ dialog = ClosedDialog
  /\ queued = NoQueue

\* parseSpreadsheet(text)
ParseSheet ==
  /\ callArgs.fn = "parseSpreadsheet"
  /\ callResult = Idle
  /\ \E r \in [RowIndices(SheetText(callArgs.blocks, callArgs.delimiter)) -> RandomSuffixes] :
       callResult' = [fn |-> "parseSpreadsheet", out |-> parseSpreadsheet(SheetText(callArgs.blocks, callArgs.delimiter), now, r)]
  /\ UNCHANGED <<items, semesters, currentSemesterId, isLoaded, storage, error, lastImport, now, dateText, dateOut, callArgs, dialog, queued>>

NextTable == ParseSheet

SpecTable == InitTable /\ [][NextTable]_vars

(***************************************************************************)
(* The Smart Paste parser as pure functions: a text and a class list are    *)
(* drawn, and detectType, extractClassCode or parseTextToAssignments is     *)
(* applied once.                                                            *)
(***************************************************************************)
LineDates == {<<"F","e","b"," ","1","5">>, <<"3","/","1","/","2","0","2","6">>, <<"2","0","2","6","-","0","3","-","2","6">>}

LineCodes == {<<"E","C","O","N","3","3","0">>, <<"C","S"," ","2","0","0">>, <<"m","a","t","h"," ","1","0","1">>}

LineTexts == {<<"Q","u","i","z"," ","1">>, <<"F","I","N","A","L"," ","E","x","a","m">>, <<"h","w"," ","d","u","e">>, <<"R","e","a","d"," ","C","h","a","p","t","e","r"," ","2">>, <<"E","s","s","a","y">>, <<"H","w">>}

\* a line of the form <date> - <course code> - <text>
FormLine(d, c, t) == d \o <<" ", "-", " ">> \o c \o <<" ", "-", " ">> \o t

FormLines == {FormLine(d, c, t) : d \in LineDates, c \in LineCodes, t \in LineTexts}

\* lines of other forms, header rows, and texts of several lines
OtherTexts == {<<"M","i","d","t","e","r","m"," ","q","u","i","z"," ","o","n"," ","t","h","e"," ","p","r","o","j","e","c","t">>, <<"L","a","b"," ","P","r","o","j","e","c","t"," ","p","r","e","s","e","n","t","a","t","i","o","n">>, <<"S","u","b","m","i","t"," ","p","r","o","b","l","e","m"," ","s","e","t"," ","3">>, <<"M","I","S"," ","1","8","0"," ","f","i","n","a","l"," ","1","2","/","9">>, <<"D","a","t","e"," ","|"," ","C","l","a","s","s"," ","|"," ","I","t","e","m">>, <<"-","-","-"," ","w","e","e","k"," ","1"," ","-","-","-">>, <<"Q","u","i","z"," ","2"," ","F","e","b"," ","2","0","\n","F","i","n","a","l"," ","E","x","a","m"," ","M","a","r"," ","3","\n","h","w"," ","4">>, <<"g","o"," ","t","o"," ","o","f","f","i","c","e"," ","h","o","u","r","s">>, <<"E","C","O","N"," ","3","3","0",":"," ","p","a","p","e","r",","," ","3","/","4",".">>, <<"\n"," "," ","\n">>}

\* pasted texts of several lines, with lines of the same type apart from each other
SortTexts == {<<"h","w"," ","3"," ","F","e","b"," ","1","\n","Q","u","i","z"," ","1","\n","h","w"," ","4"," ","F","e","b"," ","8","\n","L","a","b"," ","P","r","o","j","e","c","t","\n","Q","u","i","z"," ","2","\n","F","i","n","a","l"," ","E","x","a","m","\n","h","w"," ","5">>, <<"P","r","o","j","e","c","t"," ","d","r","a","f","t","\n","E","s","s","a","y","\n","Q","u","i","z"," ","3","\n","E","s","s","a","y"," ","2","\n","R","e","a","d"," ","C","h","a","p","t","e","r"," ","2","\n","Q","u","i","z"," ","3">>}

FreeTexts == FormLines \cup LineDates \cup LineCodes \cup LineTexts \cup OtherTexts \cup SortTexts

KnownClass(code, name) == [code |-> code, name |-> name, color |-> "bg-chart-1", hasLatePenalty |-> FALSE]

ClassLists == {<<>>, <<KnownClass(<<"E","C","O","N","3","3","0">>, <<"E","c","o","n","o","m","i","c","s">>), KnownClass(<<"c","s"," ","2","0","0">>, <<"C","o","m","p","u","t","e","r"," ","S","c","i","e","n","c","e">>)>>, <<KnownClass(<<"M","I","S","1","8","0">>, <<"I","n","f","o","r","m","a","t","i","o","n"," ","S","y","s","t","e","m","s">>)>>}

InitText ==
  /\ items = <<>>
  /\ semesters = initialSemesters
  /\ currentSemesterId = "my-semester"
  /\ isLoaded = FALSE
  /\ storage = [items |-> NotStored, semesters |-> NotStored, current |-> NotStored]
  /\ error = ""
  /\ lastImport = NoImport
  /\ now = 1
  /\ dateText = <<>>
  /\ dateOut = NoImport
  /\ callArgs \in {[fn |-> "freeText", text |-> t, classes |-> cl] : t \in FreeTexts, cl \in ClassLists}
  /\ callResult = Idle
  /\ dialog = ClosedDialog
  /\ queued = NoQueue

\* detectType(line)
DetectTypeOfText ==
  /\ callArgs.fn = "freeText"
  /\ callResult = Idle
  /\ callResult' = [fn |-> "detectType", out |-> detectType(callArgs.text)]
  /\ UNCHANGED <<items, semesters, currentSemesterId, isLoaded, storage, error, lastImport, now, dateText, dateOut, callArgs, dialog, queued>>

\* extractClassCode(line)
ExtractClassOfText ==
  /\ callArgs.fn = "freeText"
  /\ callResult = Idle
  /\ callResult' = [fn |-> "extractClassCode", out |-> extractClassCode(callArgs.text, callArgs.classes)]
  /\ UNCHANGED <<items, semesters, currentSemesterId, isLoaded, storage, error, lastImport, now, dateText, dateOut, callArgs, dialog, queued>>

\* parseTextToAssignments(text, classes)
ParseText ==
  /\ callArgs.fn = "freeText"
  /\ callResult = Idle
  /\ callResult' = [fn |-> "parseTextToAssignments", out |-> parseTextToAssignments(callArgs.text, callArgs.classes)]
  /\ UNCHANGED <<items, semesters, currentSemesterId, isLoaded, storage, error, lastImport, now, dateText, dateOut, callArgs, dialog, queued>>

NextText ==
  \/ DetectTypeOfText
  \/ ExtractClassOfText
  \/ ParseText

SpecText == InitText /\ [][NextText]_vars

(***************************************************************************)
(* The late penalty as a pure function: a graded item and the class list    *)
(* of the current semester are drawn, and the grade is shown by GradeDialog *)
(* or counted by calculateClassGrade once.                                  *)
(***************************************************************************)
Grades == {0, 5, 45, 85, 100}

\* the most days late an item is marked with
MaxDaysLate == 3

\* a graded item as GradeDialog.handleSave stores it: daysLate is 0 unless isLate
GradedItems == {[classCode |-> c, grade |-> g, isLate |-> d > 0, daysLate |-> d] : c \in {<<"M","A","T","H","1","0","1">>, <<"C","S","2","0","0">>}, g \in Grades, d \in 0..MaxDaysLate}

\* class lists of the current semester, as handleAddClass builds them
GradeClassLists == {<<[code |-> <<"M","A","T","H","1","0","1">>, name |-> <<"C","a","l","c","u","l","u","s"," ","I">>, color |-> "bg-chart-1", hasLatePenalty |-> p]>> : p \in BOOLEAN} \cup {<<>>}

InitGrade ==
  /\ items = <<>>
  /\ semesters = initialSemesters
  /\ currentSemesterId = "my-semester"
  /\ isLoaded = FALSE
  /\ storage = [items |-> NotStored, semesters |-> NotStored, current |-> NotStored]
  /\ error = ""
  /\ lastImport = NoImport
  /\ now = 1
  /\ dateText = <<>>
  /\ dateOut = NoImport
  /\ callArgs \in {[fn |-> "grade", item |-> it, classes |-> cl] : it \in GradedItems, cl \in GradeClassLists}
  /\ callResult = Idle
  /\ dialog = ClosedDialog
  /\ queued = NoQueue

\* GradeDialog renders the grade of the item
ShowGrade ==
  /\ callArgs.fn = "grade"
  /\ callResult = Idle
  /\ callResult' = [fn |-> "GradeDialog", out |-> DisplayedGrade(callArgs.item, callArgs.classes)]
  /\ UNCHANGED <<items, semesters, currentSemesterId, isLoaded, storage, error, lastImport, now, dateText, dateOut, callArgs, dialog, queued>>

\* calculateClassGrade counts the item in the grade of its class
CountGrade ==
  /\ callArgs.fn = "grade"
  /\ callResult = Idle
  /\ callResult' = [fn |-> "calculateClassGrade", out |-> EffectiveGrade(callArgs.item, callArgs.item.classCode)]
  /\ UNCHANGED <<items, semesters, currentSemesterId, isLoaded, storage, error, lastImport, now, dateText, dateOut, callArgs, dialog, queued>>

NextGrade ==
  \/ ShowGrade
  \/ CountGrade

SpecGrade == InitGrade /\ [][NextGrade]_vars

(***************************************************************************)
(* The AddAssignment dialog on a loaded Dashboard with one semester, one    *)
(* class and one item: the user opens and closes the dialog, fills the      *)
(* manual form, types into the Smart Paste textarea, clicks 'Parse Text',   *)
(* and the 500 ms timer of handleParseText fires at some later moment.      *)
(***************************************************************************)
\* the text typed into the Smart Paste textarea (bounded input): two lines
DialogTexts == {<<"h","w"," ","4","\n","F","i","n","a","l"," ","E","x","a","m"," ","M","a","r"," ","3">>}

InitPaste ==
  /\ items = <<StoredItem>>
  /\ semesters = <<StoredSemester>>
  /\ currentSemesterId = "semester-0"
  /\ isLoaded = TRUE
  /\ storage = SaveAll(items, semesters, currentSemesterId)
  /\ error = ""
  /\ lastImport = NoImport
  /\ now = 1
  /\ dateText = <<>>
  /\ dateOut = [outcome |-> "none"]
  /\ callArgs = Idle
  /\ callResult = Idle
  /\ dialog = ClosedDialog
  /\ queued = NoQueue

\* <Dialog open={open} onOpenChange={setOpen}>: the trigger, the close button, Escape
SetOpen ==
  /\ dialog' = [dialog EXCEPT !.open = ~dialog.open]
  /\ UNCHANGED <<items, semesters, currentSemesterId, isLoaded, storage, error, lastImport, now, dateText, dateOut, callArgs, callResult, queued>>

\* the manual form is filled in: a title, a class of the current semester, a due date
SetManualForm ==
  /\ dialog.open
  /\ dialog.title = <<>>
  /\ \E k \in 1..Len(currentClasses) :
       dialog' = [dialog EXCEPT !.title = <<"E","s","s","a","y">>, !.classCode = currentClasses[k].code,
                                !.dueDate = <<"2","0","2","6","-","0","3","-","0","1">>]
  /\ UNCHANGED <<items, semesters, currentSemesterId, isLoaded, storage, error, lastImport, now, dateText, dateOut, callArgs, callResult, queued>>

\* handleManualSubmit; the button is disabled while title, class or due date is missing
HandleManualSubmit ==
  /\ dialog.open
  /\ dialog.title # <<>> /\ dialog.classCode # <<>> /\ dialog.dueDate # <<>>
  /\ now < MaxTime
  /\ \E rnd \in RandomSuffixes :
       items' = handleAddItem(items, ManualItem(dialog, currentClasses, now, rnd), currentSemesterId)
  /\ dialog' = [resetForm(dialog) EXCEPT !.open = FALSE]
  /\ now' = now + 1
  /\ storage' = SaveAll(items', semesters, currentSemesterId)
  /\ UNCHANGED <<semesters, currentSemesterId, isLoaded, error, lastImport, dateText, dateOut, callArgs, callResult, queued>>

\* setImportText(e.target.value)
SetImportText ==
  /\ dialog.open
  /\ \E text \in DialogTexts :
       /\ text # dialog.importText
       /\ dialog' = [dialog EXCEPT !.importText = text]
  /\ UNCHANGED <<items, semesters, currentSemesterId, isLoaded, storage, error, lastImport, now, dateText, dateOut, callArgs, callResult, queued>>

\* handleParseText; the button is disabled while the text is blank or isParsing
HandleParseText ==
  /\ dialog.open
  /\ Trim(dialog.importText) # <<>> /\ ~dialog.isParsing
  /\ dialog' = [dialog EXCEPT !.isParsing = TRUE,
                              !.timers = Append(@, [text |-> dialog.importText, classes |-> currentClasses, resetSince |-> FALSE])]
  /\ UNCHANGED <<items, semesters, currentSemesterId, isLoaded, storage, error, lastImport, now, dateText, dateOut, callArgs, callResult, queued>>

\* the callback of setTimeout(..., 500) runs, on the text and classes its closure captured
ParseTimerFires ==
  /\ dialog.timers # <<>>
  /\ dialog' = [dialog EXCEPT !.parsedItems = parseTextToAssignments(Head(dialog.timers).text, Head(dialog.timers).classes),
                              !.isParsing = FALSE,
                              !.timers = Tail(@)]
  /\ UNCHANGED <<items, semesters, currentSemesterId, isLoaded, storage, error, lastImport, now, dateText, dateOut, callArgs, callResult, queued>>

\* removeParsedItem(index), from the list of parsed items
RemoveParsedItem ==
  /\ dialog.open
  /\ \E index \in 1..Len(dialog.parsedItems) :
       dialog' = [dialog EXCEPT !.parsedItems = removeParsedItem(@, index)]
  /\ UNCHANGED <<items, semesters, currentSemesterId, isLoaded, storage, error, lastImport, now, dateText, dateOut, callArgs, callResult, queued>>

\* handleImportParsed; the button exists while parsedItems.length > 0
HandleImportParsed ==
  /\ dialog.open
  /\ Len(dialog.parsedItems) > 0
  /\ now < MaxTime
  /\ \E rnd \in RandomSuffixes :
       /\ Len(ItemsToAdd(dialog.parsedItems, currentClasses, now, rnd)) > 0
       /\ items' = handleAddItems(items, ItemsToAdd(dialog.parsedItems, currentClasses, now, rnd), currentSemesterId)
  /\ dialog' = [resetForm(dialog) EXCEPT !.open = FALSE]
  /\ now' = now + 1
  /\ storage' = SaveAll(items', semesters, currentSemesterId)
  /\ UNCHANGED <<semesters, currentSemesterId, isLoaded, error, lastImport, dateText, dateOut, callArgs, callResult, queued>>

NextPaste ==
  \/ SetOpen
  \/ SetManualForm
  \/ HandleManualSubmit
  \/ SetImportText
  \/ HandleParseText
  \/ ParseTimerFires
  \/ RemoveParsedItem
  \/ HandleImportParsed

SpecPaste == InitPaste /\ [][NextPaste]_vars

(***************************************************************************)
(* Properties of the import (ImportData.handleImport with                  *)
(* Dashboard.handleImportData) and of the date readers.                     *)
(***************************************************************************)
\* the last handleImport call left items, semesters and currentSemesterId as they were
ImportLeftStateAlone ==
  /\ items = lastImport.before.items
  /\ semesters = lastImport.before.semesters
  /\ currentSemesterId = lastImport.before.currentSemesterId

\* a class code upper-cased with its whitespace removed
NormalizedCode(code) == ToUpperCase(RemoveSpaces(code))

\* no two entries of a class list have the same normalized code
CodesDistinct(classes) ==
  \A i \in 1..Len(classes) : \A j \in 1..Len(classes) :
    i # j => NormalizedCode(classes[i].code) # NormalizedCode(classes[j].code)

\* the class list of the semester the add branch merged into, as it was before the import
ClassesBefore == FindCurrentSem(lastImport.before.semesters, lastImport.before.currentSemesterId).classes

IsLeapYear(y) == (y % 4 = 0 /\ y % 100 # 0) \/ y % 400 = 0

DaysInMonth(y, m) == IF m = 2 THEN (IF IsLeapYear(y) THEN 29 ELSE 28) ELSE IF m \in {4, 6, 9, 11} THEN 30 ELSE 31

\* YYYY-MM-DD naming a day of the calendar
ValidDate(d) ==
  /\ Len(d) = 10
  /\ DigitsAt(d, 1, 4) /\ d[5] = "-" /\ DigitsAt(d, 6, 2) /\ d[8] = "-" /\ DigitsAt(d, 9, 2)
  /\ ParseInt(Sub(d, 6, 7)) \in 1..12
  /\ ParseInt(Sub(d, 9, 10)) \in 1..DaysInMonth(ParseInt(Sub(d, 1, 4)), ParseInt(Sub(d, 6, 7)))

\* C1: in add mode the items handed to onImport are the existing items, unchanged and in their
\* order, followed by the new items; their number is the number of existing plus new items
C1_AddAppendsNewItems ==
  lastImport.outcome = "add" =>
    /\ Len(lastImport.onImport.items) = Len(lastImport.before.items) + Len(lastImport.parsed.items)
    /\ \A k \in 1..Len(lastImport.before.items) : lastImport.onImport.items[k] = lastImport.before.items[k]
    /\ \A k \in 1..Len(lastImport.parsed.items) : \A f \in DOMAIN lastImport.parsed.items[k] :
         lastImport.onImport.items[Len(lastImport.before.items) + k][f] = lastImport.parsed.items[k][f]
    /\ items = lastImport.onImport.items

\* an add import of two parsed items onto existing items
C1_Witness ==
  /\ lastImport.outcome = "add"
  /\ Len(lastImport.before.items) > 0
  /\ Len(lastImport.parsed.items) > 1

\* C2: in add mode the merged class list of the target semester never holds two entries with
\* the same normalized class code (upper-cased, whitespace removed)
C2_MergedCodesDistinct ==
  (lastImport.outcome = "add" /\ CodesDistinct(ClassesBefore)) => CodesDistinct(lastImport.onImport.classes)

\* C3: after a replace import the items, semesters and classes are strictly the new batch:
\* the semesters are exactly the one new semester and currentSemesterId names it
C3_ReplaceLeavesNewBatchOnly ==
  lastImport.outcome = "replace" =>
    /\ Len(semesters) = 1
    /\ semesters[1].id = SemesterIdAt(lastImport.t)
    /\ semesters[1].classes = lastImport.parsed.classes
    /\ currentSemesterId = semesters[1].id
    /\ Len(items) = Len(lastImport.parsed.items)
    /\ \A k \in 1..Len(items) :
         /\ items[k].id = lastImport.parsed.items[k].id
         /\ items[k].semesterId = semesters[1].id
         /\ \A j \in 1..Len(lastImport.before.items) : items[k].id # lastImport.before.items[j].id

\* a replace import over existing items and two existing semesters
C3_Witness ==
  /\ lastImport.outcome = "replace"
  /\ Len(lastImport.before.items) > 0
  /\ Len(lastImport.before.semesters) > 1

\* C4: an add import requested with no target semester (no semesters, or an empty
\* currentSemesterId) fails with an error: onImport is not called and the state is unchanged
C4_AddWithoutTargetFails ==
  (/\ lastImport.outcome # "none"
   /\ lastImport.requested = "add"
   /\ (Len(lastImport.before.semesters) = 0 \/ lastImport.before.currentSemesterId = ""))
  => (error # "" /\ ~lastImport.onImport.called /\ ImportLeftStateAlone)

\* C5: in add mode every new item carries the id of the target semester, the semester whose
\* class list receives the merged classes, also when currentSemesterId names no semester
C5_NewItemsCarryTargetId ==
  lastImport.outcome = "add" =>
    \A k \in (Len(lastImport.before.items) + 1)..Len(lastImport.onImport.items) :
      lastImport.onImport.items[k].semesterId = lastImport.onImport.semester.id

\* C6: after an import in either mode every newly introduced class has a gradeWeights entry
\* with the default weighting (exam .40, final .25, hw .15, quiz .10, project .10)
C6_NewClassesHaveDefaultWeights ==
  lastImport.outcome \in {"add", "replace"} =>
    \A n \in 1..Len(semesters) : semesters[n].id = lastImport.onImport.semester.id =>
      \A k \in 1..Len(semesters[n].classes) :
        (lastImport.outcome = "add" => semesters[n].classes[k].code \notin ClassCodes(ClassesBefore)) =>
          /\ semesters[n].classes[k].code \in DOMAIN semesters[n].gradeWeights
          /\ semesters[n].gradeWeights[semesters[n].classes[k].code] = DefaultWeights

\* C7: a pasted text that is empty or only whitespace is rejected before parsing: the
\* empty-input error is set, neither parseSpreadsheet nor onImport is called, no state changes
C7_BlankTextRejected ==
  (lastImport.outcome # "none" /\ \A k \in 1..Len(lastImport.text) : IsSpace(lastImport.text[k])) =>
    /\ error = EmptyInputMessage
    /\ error # ""
    /\ ~lastImport.parseCalled
    /\ ~lastImport.onImport.called
    /\ ImportLeftStateAlone

\* a whitespace-only text pasted over existing items
C7_Witness ==
  /\ lastImport.outcome = "empty"
  /\ Len(lastImport.text) > 0
  /\ Len(lastImport.before.items) > 0

\* C8: in both modes a non-blank text that parses to zero items sets the zero-yield error, which
\* differs from the empty-input error; onImport is not called and no state changes
C8_ZeroYieldRejected ==
  (lastImport.outcome # "none" /\ lastImport.parseCalled /\ Len(lastImport.parsed.items) = 0) =>
    /\ lastImport.requested \in {"add", "replace"}
    /\ error = ZeroYieldMessage
    /\ error # EmptyInputMessage
    /\ error # ""
    /\ ~lastImport.onImport.called
    /\ ImportLeftStateAlone

\* an add import, with a target semester, of a text with a header line and no usable row
C8_Witness ==
  /\ lastImport.outcome = "zero"
  /\ lastImport.requested = "add"
  /\ Len(lastImport.text) > 0
  /\ Len(lastImport.before.semesters) > 0
  /\ lastImport.before.currentSemesterId = "semester-0"

\* C9: every item the tabular parser produces has a dueDate that is a valid calendar date
C9_DueDatesAreCalendarDates ==
  lastImport.outcome # "none" =>
    \A k \in 1..Len(lastImport.parsed.items) : ValidDate(lastImport.parsed.items[k].dueDate)

\* C10: parseDate and extractDate give the same ISO date for every spelling of one date: month
\* name with day and four-digit year, M/D/YYYY, M-D-YYYY, YYYY-MM-DD and YYYY/MM/DD
C10_SpellingsGiveSameDate ==
  dateOut.outcome # "none" =>
    \A sp \in DateSpellings : \A y \in DateYears : \A m \in DateMonths : \A d \in DateDays :
      SpellDate(sp, y, m, d) = dateText => dateOut.out = IsoOfNumbers(y, m, d)

\* C11: for a numeric M/D/YY or M-D-YY date with a two-digit year yy, parseDate and extractDate
\* both return the year 2000 + yy with month and day padded to two digits
C11_TwoDigitYearIs2000Plus ==
  dateOut.outcome # "none" =>
    \A sp \in ShortYearSpellings : \A yy \in ShortYears : \A m \in DateMonths : \A d \in DateDays :
      SpellDate(sp, yy, m, d) = dateText => dateOut.out = SpellDate("iso", 2000 + yy, m, d)

\* extractDate has read 2/5/05
C11_Witness ==
  /\ dateOut.outcome = "extractDate"
  /\ dateText = <<"2", "/", "5", "/", "0", "5">>
  /\ dateOut.out = <<"2", "0", "0", "5", "-", "0", "2", "-", "0", "5">>

\* C14: every class code the tabular parser emits, on an item or in the class list, is
\* normalized (upper case, no whitespace), also for a class cell of the form "code - name"
C14_ClassCodesNormalized ==
  lastImport.outcome # "none" =>
    /\ \A k \in 1..Len(lastImport.parsed.items) :
         NormalizedCode(lastImport.parsed.items[k].classCode) = lastImport.parsed.items[k].classCode
    /\ \A k \in 1..Len(lastImport.parsed.classes) :
         NormalizedCode(lastImport.parsed.classes[k].code) = lastImport.parsed.classes[k].code


\* the fields of parsed items that do not depend on the clock or on Math.random()
Structured(its) ==
  [k \in 1..Len(its) |-> [classCode |-> its[k].classCode, class |-> its[k].class, title |-> its[k].title,
                          type |-> its[k].type, dueDate |-> its[k].dueDate, time |-> its[k].time]]

\* the sheet of the call with the columns of its first block in the order Class, Title, Type, Due Date, Time
CanonicalSheetText == SheetText(<<[order |-> CanonicalOrder, rows |-> callArgs.blocks[1].rows]>>, callArgs.delimiter)

\* C12: in a text of two header-delimited blocks the second header line is a header boundary:
\* it produces no item, and the row after it is read with the column mapping of that header
C12_SecondHeaderStartsNewBlock ==
  (callResult.fn = "parseSpreadsheet" /\ Len(callArgs.blocks) = 2) =>
    /\ Len(callResult.out.items) = 2
    /\ callArgs.blocks[2].rows[1][2] # <<>> => callResult.out.items[2].title = callArgs.blocks[2].rows[1][2]
    /\ callArgs.blocks[2].rows[1][1] # <<>> => callResult.out.items[2].classCode = NormalizedCode(callArgs.blocks[2].rows[1][1])

\* C13: a table with the header cells Class, Title, Type, Due Date and Time parses to the same
\* structured records and the same class list whatever the order of its columns
C13_ColumnOrderIrrelevant ==
  (callResult.fn = "parseSpreadsheet" /\ Len(callArgs.blocks) = 1) =>
    /\ Structured(callResult.out.items) = Structured(parseSpreadsheet(CanonicalSheetText, now, [i \in RowIndices(CanonicalSheetText) |-> "k3x9a1b"]).items)
    /\ callResult.out.classes = parseSpreadsheet(CanonicalSheetText, now, [i \in RowIndices(CanonicalSheetText) |-> "k3x9a1b"]).classes

\* C15: a data row with a title and an empty class cell is kept and yields an item with an
\* empty classCode
C15_EmptyClassCellGivesEmptyCode ==
  (callResult.fn = "parseSpreadsheet" /\ Len(callArgs.blocks) = 1) =>
    \A k \in 1..Len(callArgs.blocks[1].rows) :
      (callArgs.blocks[1].rows[k][1] = <<>> /\ callArgs.blocks[1].rows[k][2] # <<>>) =>
        \E j \in 1..Len(callResult.out.items) :
          /\ callResult.out.items[j].title = callArgs.blocks[1].rows[k][2]
          /\ callResult.out.items[j].classCode = <<>>


\* the order in which the classifier is said to check the keyword sets
ClassifierOrder == <<<<"e","x","a","m">>, <<"q","u","i","z">>, <<"p","r","o","j","e","c","t">>, <<"a","s","s","i","g","n","m","e","n","t">>, <<"h","o","m","e","w","o","r","k">>, <<"l","e","c","t","u","r","e">>>>

\* whether a keyword of the type's keyword set occurs in the text, whatever the letter case
KeywordOfType(text, type) ==
  \E j \in 1..Len(typeKeywords) :
    typeKeywords[j][1] = type /\ \E w \in Range(typeKeywords[j][2]) : Includes(ToLowerCase(text), w)

\* C16: detectType gives every text exactly one type: the first type in the order exam, quiz,
\* project, assignment, homework, lecture with a keyword contained in the text, whatever the
\* letter case, and assignment when no keyword is contained
C16_FirstKeywordSetWins ==
  callResult.fn = "detectType" =>
    /\ callResult.out.type \in Range(ClassifierOrder)
    /\ \A k \in 1..Len(ClassifierOrder) :
         callResult.out.type = ClassifierOrder[k] <=>
           \/ /\ KeywordOfType(callArgs.text, ClassifierOrder[k])
              /\ \A j \in 1..(k - 1) : ~KeywordOfType(callArgs.text, ClassifierOrder[j])
           \/ /\ ClassifierOrder[k] = TypeAssignment
              /\ \A j \in 1..Len(ClassifierOrder) : ~KeywordOfType(callArgs.text, ClassifierOrder[j])

\* detectType has read a line with keywords of the exam set (capitalized), the quiz set and the
\* project set
C16_Witness ==
  /\ callResult.fn = "detectType"
  /\ callArgs.text = <<"M","i","d","t","e","r","m"," ","q","u","i","z"," ","o","n"," ","t","h","e"," ","p","r","o","j","e","c","t">>
  /\ callResult.out.type = <<"e","x","a","m">>


CapitalizedTypes == {<<"E","x","a","m">>, <<"Q","u","i","z">>, <<"P","r","o","j","e","c","t">>, <<"A","s","s","i","g","n","m","e","n","t">>, <<"H","o","m","e","w","o","r","k">>, <<"L","e","c","t","u","r","e">>}

\* C17: the free-text parser returns no candidate with an empty title, and a line whose derived
\* title has two characters or fewer yields a candidate titled with the capitalized name of
\* its type
C17_TitleNeverEmpty ==
  callResult.fn = "parseTextToAssignments" =>
    /\ \A k \in 1..Len(callResult.out) : callResult.out[k].title # <<>>
    /\ \A n \in 1..Len(TextLines(callArgs.text)) :
         Len(CleanTitle(StripPatterns(TextLines(callArgs.text)[n]))) <= 2 =>
           \E k \in 1..Len(callResult.out) :
             /\ callResult.out[k].title = Capitalize(callResult.out[k].type)
             /\ callResult.out[k].title \in CapitalizedTypes
             /\ callResult.out[k].type = detectType(TextLines(callArgs.text)[n]).type

\* a line that is only a date, whose derived title is empty, has been parsed
C17_Witness ==
  /\ callResult.fn = "parseTextToAssignments"
  /\ callArgs.text = <<"F","e","b"," ","1","5">>
  /\ Len(callResult.out) = 1
  /\ callResult.out[1].title = <<"A","s","s","i","g","n","m","e","n","t">>

\* the course token c matches no class of the class list
UnknownCode(c, classes) == \A k \in 1..Len(classes) : NormalizedCode(classes[k].code) # NormalizedCode(c)

\* C18: for a line <date> - <course code> - <text> whose course token matches no known class,
\* extractClassCode returns the normalized token as code and name, and the candidate carries
\* it as classCode and class
C18_UnknownTokenReturnedRaw ==
  \A d \in LineDates : \A c \in LineCodes : \A t \in LineTexts :
    (callArgs.fn = "freeText" /\ callArgs.text = FormLine(d, c, t) /\ UnknownCode(c, callArgs.classes)) =>
      /\ callResult.fn = "extractClassCode" =>
           (callResult.out.found /\ callResult.out.code = NormalizedCode(c) /\ callResult.out.name = NormalizedCode(c))
      /\ callResult.fn = "parseTextToAssignments" =>
           /\ Len(callResult.out) = 1
           /\ callResult.out[1].classCode = NormalizedCode(c)
           /\ callResult.out[1].class = NormalizedCode(c)

\* C19: for a line <date> - <course code> - <text> the title of the candidate is exactly <text>
C19_TitleIsTheText ==
  \A d \in LineDates : \A c \in LineCodes : \A t \in LineTexts :
    (callResult.fn = "parseTextToAssignments" /\ callArgs.text = FormLine(d, c, t) /\ Len(t) > 2) =>
      /\ Len(callResult.out) = 1
      /\ callResult.out[1].title = t


\* C20: the effective grade of an item graded g and marked d days late is max(0, g - 10 d) when
\* the class of the item has hasLatePenalty in the current semester and d > 0, and g otherwise,
\* in the grade display and in the class grade alike
C20_LatePenaltyApplied ==
  callResult.fn \in {"GradeDialog", "calculateClassGrade"} =>
    callResult.out =
      IF /\ \E k \in 1..Len(callArgs.classes) :
              callArgs.classes[k].code = callArgs.item.classCode /\ callArgs.classes[k].hasLatePenalty
         /\ callArgs.item.daysLate > 0
      THEN (IF callArgs.item.grade - 10 * callArgs.item.daysLate > 0 THEN callArgs.item.grade - 10 * callArgs.item.daysLate ELSE 0)
      ELSE callArgs.item.grade


\* C21: in every semester no two entries of the class list have the same code, whatever
\* imports, additions and deletions of classes came before
C21_ClassCodesUniquePerSemester ==
  \A n \in 1..Len(semesters) :
    \A i \in 1..Len(semesters[n].classes) : \A j \in 1..Len(semesters[n].classes) :
      i # j => semesters[n].classes[i].code # semesters[n].classes[j].code


\* the parsed classes whose code is not a code of the class list before
NewClassesOf(before, classes) == SelectSeq(classes, LAMBDA c : \A k \in 1..Len(before) : before[k].code # c.code)

\* C22: in add mode the merged class list is the class list of the target semester as it was,
\* every entry unchanged and at its position, followed by the parsed classes whose code was
\* not in it, in parsed order; a parsed class whose code was in it is dropped
C22_MergeKeepsExistingAppendsNew ==
  lastImport.outcome = "add" =>
    /\ lastImport.onImport.classes = ClassesBefore \o NewClassesOf(ClassesBefore, lastImport.parsed.classes)
    /\ lastImport.onImport.semester.classes = lastImport.onImport.classes
    /\ \A n \in 1..Len(semesters) :
         semesters[n].id = lastImport.before.currentSemesterId => semesters[n].classes = lastImport.onImport.classes

\* an add import whose text names a class of the target semester and a new one
C22_Witness ==
  /\ lastImport.outcome = "add"
  /\ \E n \in 1..Len(semesters) : semesters[n].id = lastImport.before.currentSemesterId
  /\ \E k \in 1..Len(lastImport.parsed.classes) : \E j \in 1..Len(ClassesBefore) :
       lastImport.parsed.classes[k].code = ClassesBefore[j].code
  /\ NewClassesOf(ClassesBefore, lastImport.parsed.classes) # <<>>


\* sem differs from old at most in its class list and in grade weights of codes old had none for
SameButClasses(old, sem) ==
  /\ DOMAIN sem = DOMAIN old
  /\ \A f \in DOMAIN old \ {"classes", "gradeWeights"} : sem[f] = old[f]
  /\ \A c \in DOMAIN old.gradeWeights : c \in DOMAIN sem.gradeWeights /\ sem.gradeWeights[c] = old.gradeWeights[c]

\* C23: in add mode the semester collection handed to onImport has the length and order of the
\* prior collection, every semester other than the target is as it was, and the target differs
\* at most in its class list and in the grade weights of newly introduced classes
C23_AddLeavesOtherSemestersAlone ==
  lastImport.outcome = "add" =>
    /\ lastImport.onImport.hasUpdated
    /\ Len(lastImport.onImport.updatedSemesters) = Len(lastImport.before.semesters)
    /\ \A n \in 1..Len(lastImport.before.semesters) :
         IF lastImport.before.semesters[n].id = lastImport.before.currentSemesterId
         THEN SameButClasses(lastImport.before.semesters[n], lastImport.onImport.updatedSemesters[n])
         ELSE lastImport.onImport.updatedSemesters[n] = lastImport.before.semesters[n]
    /\ semesters = lastImport.onImport.updatedSemesters

\* an add import that gives the target semester a new class while another semester exists
C23_Witness ==
  /\ lastImport.outcome = "add"
  /\ Len(lastImport.before.semesters) > 1
  /\ \E n \in 1..Len(semesters) :
       /\ lastImport.before.semesters[n].id = lastImport.before.currentSemesterId
       /\ semesters[n].classes # lastImport.before.semesters[n].classes


\* the place of a type in the classifier order exam, quiz, project, assignment, homework, lecture
RankInClassifierOrder(type) == CHOOSE k \in 1..Len(ClassifierOrder) : ClassifierOrder[k] = type

\* C24: the urgency rank of a type is its place in the classifier order (exam 1, quiz 2,
\* project 3, assignment 4, homework 5, lecture 6), so in the result of the free-text parser
\* no project candidate stands before a quiz candidate
C24_RankFollowsClassifierOrder ==
  /\ callResult.fn = "detectType" => callResult.out.priority = RankInClassifierOrder(callResult.out.type)
  /\ callResult.fn = "parseTextToAssignments" =>
       \A i \in 1..Len(callResult.out) : \A j \in 1..Len(callResult.out) :
         (i < j /\ callResult.out[j].type = <<"q","u","i","z">>) => callResult.out[i].type # <<"p","r","o","j","e","c","t">>

\* out is in ascending order of rank and holds the candidates of every rank as cands has them
SortedStable(out, cands) ==
  /\ \A i \in 1..Len(out) : \A j \in 1..Len(out) : i < j => out[i].priority <= out[j].priority
  /\ Len(out) = Len(cands)
  /\ \A p \in 1..6 : SelectSeq(out, LAMBDA c : c.priority = p) = SelectSeq(cands, LAMBDA c : c.priority = p)

\* C25: the candidates returned by the free-text parser are in ascending order of rank, and the
\* candidates of one rank are in the order of their lines
C25_SortedByRankStable ==
  callResult.fn = "parseTextToAssignments" =>
    SortedStable(callResult.out, CandidatesOf(TextLines(callArgs.text), callArgs.classes))

\* a text whose lines are out of rank order, with lines of one rank apart from each other and
\* told apart by their titles, has been parsed
C25_Witness ==
  /\ callResult.fn = "parseTextToAssignments"
  /\ Len(callResult.out) = 7
  /\ callResult.out # CandidatesOf(TextLines(callArgs.text), callArgs.classes)
  /\ \E i \in 1..6 :
       /\ callResult.out[i].priority = callResult.out[i + 1].priority
       /\ callResult.out[i].title # callResult.out[i + 1].title


\* C26: a row with a non-empty type cell yields an item whose type is the type the keyword
\* classifier gives the cell (the first keyword set contained in it, whatever the letter case),
\* so the cell "Final Exam" yields an exam; without a type cell the type is assignment
C26_TypeCellIsClassified ==
  (callResult.fn = "parseSpreadsheet" /\ Len(callArgs.blocks) = 1) =>
    \A k \in 1..Len(callArgs.blocks[1].rows) :
      callArgs.blocks[1].rows[k][2] # <<>> =>
        \E j \in 1..Len(callResult.out.items) :
          /\ callResult.out.items[j].title = callArgs.blocks[1].rows[k][2]
          /\ callResult.out.items[j].type =
               IF callArgs.blocks[1].rows[k][3] # <<>> THEN detectType(callArgs.blocks[1].rows[k][3]).type ELSE TypeAssignment


\* C30: the callback of a parse timer installs its result into parsedItems only when the form
\* was not reset since 'Parse Text' was clicked: after a reset the timer leaves parsedItems
\* empty; and at most one parse is pending at any time
C30_StaleParseNotInstalled ==
  [][/\ (dialog.timers # <<>> /\ dialog'.timers = Tail(dialog.timers) /\ Head(dialog.timers).resetSince) =>
          dialog'.parsedItems = <<>>
     /\ Len(dialog'.timers) <= 1]_vars


\* C27: the current-semester selector is always the id of a semester of the collection
C27_CurrentSemesterExists ==
  \E n \in 1..Len(semesters) : semesters[n].id = currentSemesterId

\* a semester was added with the form next to the semester of an import and is the current one
C27_Witness ==
  /\ isLoaded
  /\ Len(semesters) > 1
  /\ currentSemesterId = semesters[Len(semesters)].id
  /\ semesters[Len(semesters)].name = "Fall 2026"
  /\ items # <<>>

\* C28: every item that carries a semesterId refers to a semester of the collection; so the
\* deletion of a semester leaves no item stamped with its id
C28_ItemsReferToSemesters ==
  \A k \in 1..Len(items) :
    "semesterId" \in DOMAIN items[k] => \E n \in 1..Len(semesters) : semesters[n].id = items[k].semesterId

\* the semester that held every item was deleted: the semester added with the form is the only
\* one left, and no item is left
C28_Witness ==
  /\ isLoaded
  /\ Len(semesters) = 1
  /\ semesters[1].name = "Fall 2026"
  /\ items = <<>>

\* C29: no step that leaves the Dashboard not yet loaded writes to storage, the commit of the
\* load writes back the records that were stored, and once loaded every step that changes the
\* items, the semesters or the current-semester selector leaves that record in storage, whole
C29_SavesFollowLoad ==
  [][/\ ~isLoaded' => storage' = storage
     /\ (~isLoaded /\ isLoaded') =>
          /\ storage.items.has => storage'.items = storage.items
          /\ storage.semesters.has => storage'.semesters = storage.semesters
          /\ storage.current.has => storage'.current = storage.current
     /\ (isLoaded' /\ items' # items) => storage'.items = [has |-> TRUE, value |-> items']
     /\ (isLoaded' /\ semesters' # semesters) => storage'.semesters = [has |-> TRUE, value |-> semesters']
     /\ (isLoaded' /\ currentSemesterId' # currentSemesterId) => storage'.current = [has |-> TRUE, value |-> currentSemesterId']]_vars

\* the item of an earlier session was loaded and is still stored, next to an item added since
C29_Witness ==
  /\ isLoaded
  /\ Len(items) > 1
  /\ items[1] = StoredItem
  /\ storage.items = [has |-> TRUE, value |-> items]
  /\ storage.semesters = [has |-> TRUE, value |-> semesters]
  /\ storage.current = [has |-> TRUE, value |-> currentSemesterId]

====
